---- MODULE Spec2Model ----
(***************************************************************************)
(* Model of the tracker-app engine: the bounded EventBuffer                *)
(* (src/main/buffer.ts), the flush loop of main.ts (onEvent, flushNow,     *)
(* setupTracking / startTracking / stopTracking), the ActivityTracker      *)
(* tick state machine (src/main/activityTracker.ts) and the                *)
(* ScreenshotScheduler (src/main/screenshotScheduler.ts) and the capture   *)
(* provider Screenshotter (src/main/screenshotter.ts).                     *)
(*                                                                         *)
(* The components only talk through callbacks, so each has its own         *)
(* specification over the shared variable list; the variables of the       *)
(* other components stay at their initial values.                          *)
(***************************************************************************)
EXTENDS Integers, Sequences, FiniteSets, TLC

(***************************************************************************)
(* Bounds of the model.                                                    *)
(***************************************************************************)
\* largest batchSize / maxSize a buffer is constructed with
MaxCap == 3
\* number of distinct events produced in one behaviour of the flush loop
MaxEvents == 4
\* number of add calls in one behaviour of the EventBuffer class
MaxAdds == 22
\* number of poll periods that elapse in one behaviour of the tracker
MaxTicks == 4
\* number of tick() calls that may be suspended at once
MaxOverlap == 2
\* number of requestCapture calls that may be suspended at once
MaxReqs == 2
\* number of stimuli (calls from outside, idle readings, advances of the
\* clock) the scheduler is given in one behaviour
MaxSteps == 4
\* config.batchSize as config.ts sets it by default
DefaultBatchSize == 20
\* EventBuffer.maxSize when the constructor is not given one
DefaultMaxSize == 1000
\* number of uploads that may be in flight at once
MaxInflight == 2
\* number of capture() calls that may be suspended at once
MaxCaps == 2
\* number of stimuli (capture calls, power events, advances of the clock)
\* the Screenshotter is given in one behaviour
MaxShotSteps == 4
\* number of displays screenshot.listDisplays() may list
MaxDisplays == 2

VARIABLES
  \* ---- EventBuffer (buffer.ts) ----
  events,       \* EventBuffer.events, oldest first
  batchSize,    \* EventBuffer.batchSize (constructor argument)
  maxSize,      \* EventBuffer.maxSize (constructor argument)
  \* ---- main.ts flush loop ----
  inflight,     \* batches drained by flushNow whose sendActivityBatch is pending
  isTracking,   \* main.ts isTracking
  flushTimer,   \* main.ts flushTimer is armed
  \* ---- observations of the last operation ----
  nextId,       \* identity of the next event instance to be created
  lastOp,       \* name of the last operation that ran
  addResult,    \* value returned by the add of the last operation, if any
  drained,      \* value returned by the last direct call of drain
  delivered,    \* events that were part of a batch whose upload succeeded
  evicted,      \* events removed by shift() during the last operation
  everFull,     \* size() has been maxSize at some point
  reqBatch,     \* the batch the last operation requeued, if it was a failed flush
  reqTouched,   \* whether add ran between that batch's drain and its failure
  \* ---- ActivityTracker (activityTracker.ts) ----
  clock,               \* Date.now()
  intervalMs,          \* opts.intervalMs
  minActivityDuration, \* opts.minActivityDuration
  maxIdleTime,         \* opts.maxIdleTime
  timerOn,             \* ActivityTracker.timer is set
  lastWindow,          \* ActivityTracker.lastWindow
  lastTimestamp,       \* ActivityTracker.lastTimestamp
  lastActivityAt,      \* ActivityTracker.lastActivityAt
  idleActive,          \* ActivityTracker.idleActive
  ticks,               \* calls of tick() suspended at an await
  trkOp,               \* the last step of the tracker and the tick it belongs to
  lastEmit,            \* the event the last step passed to onEvent, if any
  lastChange,          \* the window the last step passed to onWindowChange, if any
  idleFrom,            \* tick on which the idle signal became true, -1 if the
                       \* user was seen active or on another window since
  idleWin,             \* the window that tick observed
  idleEmits,           \* number of events that tick emitted
  overlapped,          \* a tick has started while another was suspended
  gapped,              \* a poll period has passed without a tick
  idleSeenAt,          \* time of the latest tick that found the system
                       \* idle, -1 when none has
  \* ---- ScreenshotScheduler (screenshotScheduler.ts) ----
  stime,               \* Date.now(); the scheduler is constructed at OneHourMs
  opts,                \* ScreenshotScheduler.opts
  detTimer,            \* IdleDetector.timer is set
  detLast,             \* IdleDetector.lastState: "null", "idle" or "active"
  timeBasedTimer,      \* ScreenshotScheduler.timeBasedTimer
  windowChangeTimer,   \* ScreenshotScheduler.windowChangeTimer
  liveTimers,          \* how many timers of each kind the event loop holds
  lastCaptureAt,       \* ScreenshotScheduler.lastCaptureAt
  hourlyTimestamps,    \* ScreenshotScheduler.hourlyTimestamps
  schIdle,             \* ScreenshotScheduler.isIdle
  reqs,                \* requestCapture calls awaiting screenshotter.capture
  schOp,               \* the last step of the scheduler
  calls,               \* the requestCapture calls the scheduler itself
                       \* made in the last step
  shotLog,             \* times, within the last hour and since the last
                       \* stop(), at which the provider took a screenshot
  notifyAt,            \* time of the notification that armed the pending
                       \* debounce timer, -1 when none is pending
  burstLen,            \* notifications that armed or re-armed the debounce
                       \* timer since it was last idle: 1, or 2 for more
  steps,               \* number of stimuli delivered: calls from outside,
                       \* idle readings and advances of the clock
  \* ---- Screenshotter (screenshotter.ts) ----
  shClock,             \* Date.now()
  platform,            \* process.platform: "darwin" or "win32"
  lastAt,              \* Screenshotter.lastAt
  isSystemSleeping,    \* Screenshotter.isSystemSleeping
  lastWakeTime,        \* Screenshotter.lastWakeTime
  hasPermission,       \* Screenshotter.hasPermission: "null", "true", "false"
  lastPermissionCheck, \* Screenshotter.lastPermissionCheck
  caps,                \* capture() calls suspended at an await
  shOp,                \* the last step of the Screenshotter
  shEmit,              \* the events the last step passed to onShot
  shSteps,             \* number of stimuli delivered
  \* ---- ScreenshotScheduler.resolveScreenIndex ----
  screenshotTarget,    \* opts.screenshotTarget: "primary", "active" or "all"
  latestWindowInfo,    \* the bounds of ScreenshotScheduler.latestWindowInfo,
                       \* << >> when there is no window or it has no bounds
  listing,             \* what screenshot.listDisplays does: "ok", "missing"
                       \* (the function is not there) or "throws"
  displays,            \* the list screenshot.listDisplays() resolves to
  primaryBounds,       \* screen.getPrimaryDisplay()?.bounds, << >> when
                       \* undefined
  screenIndex,         \* the value the last resolveScreenIndex() returned
  rsOp,                \* the last step of the display resolution
  \* ---- the account of the records of the ActivityTracker ----
  recorded,            \* sum of durationMs over the events passed to onEvent
  firstTickAt,         \* time of the first tick(), -1 before it
  skipped              \* the intervals <<from, to>> of the recordable
                       \* transitions whose record was suppressed

bufVars == <<events, batchSize, maxSize, inflight, isTracking, flushTimer,
             nextId, lastOp, addResult, drained, delivered, evicted,
             everFull, reqBatch, reqTouched>>

vars == <<events, batchSize, maxSize, inflight, isTracking, flushTimer,
          nextId, lastOp, addResult, drained, delivered, evicted,
          everFull, reqBatch, reqTouched,
          clock, intervalMs, minActivityDuration, maxIdleTime, timerOn,
          lastWindow, lastTimestamp, lastActivityAt, idleActive, ticks,
          trkOp, lastEmit, lastChange, idleFrom, idleWin, idleEmits,
          overlapped, gapped, idleSeenAt,
          stime, opts, detTimer, detLast, timeBasedTimer, windowChangeTimer,
          liveTimers,
          lastCaptureAt, hourlyTimestamps, schIdle, reqs, schOp, calls,
          shotLog, notifyAt, burstLen, steps,
          shClock, platform, lastAt, isSystemSleeping, lastWakeTime,
          hasPermission, lastPermissionCheck, caps, shOp, shEmit, shSteps,
          screenshotTarget, latestWindowInfo, listing, displays,
          primaryBounds, screenIndex, rsOp, recorded, firstTickAt, skipped>>

schVars == <<stime, opts, detTimer, detLast, timeBasedTimer,
             windowChangeTimer, liveTimers, lastCaptureAt, hourlyTimestamps, schIdle,
             reqs, schOp, calls, shotLog, notifyAt, burstLen, steps>>

trkVars == <<clock, intervalMs, minActivityDuration, maxIdleTime, timerOn,
             lastWindow, lastTimestamp, lastActivityAt, idleActive, ticks,
             trkOp, lastEmit, lastChange, idleFrom, idleWin, idleEmits,
             overlapped, gapped, idleSeenAt>>

shVars == <<shClock, platform, lastAt, isSystemSleeping, lastWakeTime,
            hasPermission, lastPermissionCheck, caps, shOp, shEmit, shSteps>>

rsVars == <<screenshotTarget, latestWindowInfo, listing, displays,
            primaryBounds, screenIndex, rsOp>>

sumVars == <<recorded, firstTickAt, skipped>>

\* the variables of the other components
OutsideBuf == UNCHANGED <<trkVars, schVars, shVars, rsVars, sumVars>>

OutsideTrk == UNCHANGED <<bufVars, schVars, shVars, rsVars>>

OutsideSch == UNCHANGED <<bufVars, trkVars, shVars, rsVars, sumVars>>

(***************************************************************************)
(* Helpers on sequences.                                                   *)
(***************************************************************************)
SeqToSet(s) == { s[i] : i \in 1..Len(s) }

RemoveAt(s, i) == SubSeq(s, 1, i - 1) \o SubSeq(s, i + 1, Len(s))

(***************************************************************************)
(* EventBuffer (buffer.ts)                                                 *)
(***************************************************************************)
\* add without the shift(): the queue grows past maxSize
BufferAddNoShift(q, e, max) == Append(q, e)

\* add dropping the newest buffered event instead of the oldest
BufferAddPop(q, e, max) ==
  LET kept == IF Len(q) >= max /\ Len(q) > 0
                THEN SubSeq(q, 1, Len(q) - 1) ELSE q
  IN  Append(kept, e)

\* the queue after add(e): shift() the oldest when at maxSize, then push
BufferAdd(q, e, max) ==
  LET kept == IF Len(q) >= max /\ Len(q) > 0 THEN Tail(q) ELSE q
  IN  Append(kept, e)

\* the events add(e) drops
BufferEvicted(q, max) ==
  IF Len(q) >= max /\ Len(q) > 0 THEN {Head(q)} ELSE {}

\* add comparing with > instead of >=
BufferAddReturnStrict(q, batch) == Len(q) > batch

\* the value add returns, given the queue after the push
BufferAddReturn(q, batch) == Len(q) >= batch

\* the value drain returns: the array that held the events
BufferDrainReturn(q) == q

\* drain that forgets to reset the queue
BufferDrainRestKept(q) == q

\* the queue drain leaves behind: a fresh empty array
BufferDrainRest(q) == << >>

\* size()
BufferSize(q) == Len(q)

(***************************************************************************)
(* Initial state: a freshly constructed buffer, tracking started           *)
(* (createWindow runs setupTracking and startTracking).                    *)
(***************************************************************************)
BufStart ==
  /\ events = << >>
  /\ inflight = << >>
  /\ isTracking = TRUE
  /\ flushTimer = TRUE
  /\ nextId = 1
  /\ lastOp = "init"
  /\ addResult = FALSE
  /\ drained = << >>
  /\ delivered = {}
  /\ evicted = {}
  /\ everFull = FALSE
  /\ reqBatch = << >>
  /\ reqTouched = FALSE


(***************************************************************************)
(* ActivityTracker (activityTracker.ts)                                    *)
(***************************************************************************)
\* maxSessionDuration = 5 * 60 * 1000
MaxSessionDuration == 300000
\* config.trackingInterval, config.minActivityDuration, config.maxIdleTime
\* as config.ts sets them by default
DefaultIntervalMs == 10000
DefaultMinActivityDuration == 2000
DefaultMaxIdleTime == 60000
\* an opts.maxIdleTime of two poll periods of the shortest interval
ShortIdleTime == 2000

\* getActiveWindowSafe gives up on the probe after 8000 ms (win32)
ProbeTimeoutMs == 8000
\* getProcessInfoFromSystemInformation gives up after 1500 ms
SiTimeoutMs == 1500
\* execFileWithTimeout gives up after 1000 ms
ExecTimeoutMs == 1000

\* values of opts.intervalMs the model tries: a short and the default poll
\* period, and one as long as the max session chunk
TrackingIntervals == {1000, DefaultIntervalMs, MaxSessionDuration}

\* pid, path and bounds of a snapshot that carries none
NoPid == -2
NoPath == "undefined"
NoBounds == << >>

\* lastWindow before the first tick
NullWindow ==
  [application |-> "null", title |-> "null", pid |-> NoPid, path |-> NoPath,
   bounds |-> NoBounds]

\* { application: "", title: "" }: the snapshot of a timed-out or failed probe
EmptyWindow ==
  [application |-> "", title |-> "", pid |-> NoPid, path |-> NoPath,
   bounds |-> NoBounds]

WinA ==
  [application |-> "A", title |-> "a", pid |-> 1, path |-> "/bin/a",
   bounds |-> <<0, 0, 800, 600>>]

WinB ==
  [application |-> "B", title |-> "b", pid |-> 2, path |-> "/bin/b",
   bounds |-> <<800, 0, 800, 600>>]

\* the snapshots the window probe returns
Snapshots == {WinA, WinB, EmptyWindow}

\* powerMonitor.getSystemIdleTime(): seconds, or -1 when it throws or
\* returns a non-finite value
IdleUnavailable == -1
IdleReadings == {IdleUnavailable, 59, 60}

\* a.pid || -1
PidKey(w) == IF w.pid = NoPid \/ w.pid = 0 THEN -1 ELSE w.pid

\* a.path || ""
PathKey(w) == IF w.path = NoPath THEN "" ELSE w.path

\* equals(a, b)
Equals(a, b) ==
  LET sameApp    == a.application = b.application
      sameTitle  == a.title = b.title
      samePid    == PidKey(a) = PidKey(b)
      samePath   == PathKey(a) = PathKey(b)
      sameBounds == IF a.bounds # NoBounds /\ b.bounds # NoBounds
                      THEN a.bounds = b.bounds
                      ELSE a.bounds = NoBounds /\ b.bounds = NoBounds
  IN  sameApp /\ sameTitle /\ samePid /\ samePath /\ sameBounds

\* isSystemIdle(now) with the reading of the idle probe
IsSystemIdle(reading, now) ==
  IF reading # IdleUnavailable
    THEN reading * 1000 >= maxIdleTime
    ELSE now - lastActivityAt > maxIdleTime

\* shouldRecord without the max session chunk
ShouldRecordNoChunk(windowChanged, isIdle, duration) ==
  \/ windowChanged
  \/ (isIdle /\ ~idleActive)

\* shouldRecord
ShouldRecord(windowChanged, isIdle, duration) ==
  \/ windowChanged
  \/ (isIdle /\ ~idleActive)
  \/ (~isIdle /\ duration >= MaxSessionDuration)

\* an event is built for every recordable transition, whatever its length
LongEnoughAlways(duration) == TRUE

\* duration >= this.opts.minActivityDuration && this.lastWindow
LongEnough(duration) ==
  duration >= minActivityDuration /\ lastWindow # NullWindow

\* buildProcessContext suspends the tick when it has a pid to look up
ContextSuspends(w) == w.pid # NoPid

\* this.lastWindow.application || "Unknown"
AppOf(w) == IF w.application = "" THEN "Unknown" ELSE w.application

\* the window_activity event built from this.lastWindow after the await;
\* tick, seen and tracked are the tick that emits it, the snapshot it
\* observed and the window that was tracked when it decided to record
ActivityEvent(t) ==
  [application |-> AppOf(lastWindow),
   title |-> lastWindow.title,
   durationMs |-> t.duration,
   isIdle |-> t.isIdle,
   tick |-> t.now,
   seen |-> t.active,
   tracked |-> t.prev]

\* the locals of a tick that is waiting for the window probe; hung tells
\* whether the probe it called never returns
ProbingTick(now, hung) ==
  [pc |-> "probe", now |-> now, active |-> NullWindow, isIdle |-> FALSE,
   windowChanged |-> FALSE, duration |-> 0, prev |-> NullWindow,
   hung |-> hung]

\* the await of the probe that would wait for the probe alone
ProbeSettlesAlone(tk) == ~tk.hung

\* Promise.race of the probe and the timers: the await of a tick always
\* ends, by the timer when the probe hangs
ProbeSettles(tk) == TRUE

\* the value of that await: the snapshot of the probe, or the empty
\* snapshot of the timer when the probe hangs
Raced(tk, probed) == IF tk.hung THEN EmptyWindow ELSE probed

\* what a step of the tracker reports: the step, the tick it belongs to and
\* what that tick observed and decided
TrackerStep(op, tick, should, duration, isIdle, seen) ==
  [op |-> op, tick |-> tick, should |-> should, duration |-> duration,
   isIdle |-> isIdle, seen |-> seen]

\* a step that is not the continuation of a tick
PlainStep(op, tick) == TrackerStep(op, tick, FALSE, 0, FALSE, NullWindow)

\* this.idleActive && !isIdle: the tick resumes after idle
ResumesNever(isIdle) == FALSE

Resumes(isIdle) == idleActive /\ ~isIdle

\* the tracker after construction, before start()
TrkStart ==
  /\ clock = 0
  /\ timerOn = FALSE
  /\ lastWindow = NullWindow
  /\ lastTimestamp = 0
  /\ lastActivityAt = 0
  /\ idleActive = FALSE
  /\ ticks = {}
  /\ trkOp = PlainStep("init", 0)
  /\ lastEmit = << >>
  /\ lastChange = << >>
  /\ idleFrom = -1
  /\ idleWin = NullWindow
  /\ idleEmits = 0
  /\ overlapped = FALSE
  /\ gapped = FALSE
  /\ idleSeenAt = -1
  /\ recorded = 0
  /\ firstTickAt = -1
  /\ skipped = {}

(***************************************************************************)
(* ScreenshotScheduler (screenshotScheduler.ts)                            *)
(***************************************************************************)
\* ONE_HOUR_MS = 60 * 60 * 1000
OneHourMs == 3600000

\* a timer that is not armed
NoTimer == [state |-> "null", due |-> -1]

\* a timer armed by setTimeout(..., delay) at time now
Armed(now, delay) == [state |-> "pending", due |-> now + delay]

\* the handle of a timer whose callback has started
Fired == [state |-> "fired", due |-> -1]

\* the option sets the model constructs a scheduler with
OptionSets ==
  { [minIntervalMs |-> 60000, timeBasedIntervalMs |-> tb.interval,
     windowChangeDebounceMs |-> 3000, maxScreenshotsPerHour |-> tb.cap,
     resumeCaptureOnActive |-> tb.resume, idleThresholdMs |-> 60000] :
      tb \in {[interval |-> 0, resume |-> FALSE, cap |-> 1],
              [interval |-> 1800000, resume |-> TRUE, cap |-> 2]} }

\* the amounts of time by which the clock is advanced: the period of the
\* idle check, the minimum spacing and an hour
TimeSteps == {2000, 60000, OneHourMs}

\* powerMonitor.getSystemIdleTime() in seconds, -1 when it throws
SchedIdleReadings == {-1, 0, 60}

\* every reason is let through while idle
AllAllowed ==
  {"manual", "tracking_start", "resume", "window_change", "time_interval"}

\* the reasons requestCapture lets through while idle
AlwaysAllowed == {"manual", "tracking_start", "resume"}

\* DEFAULT_WINDOW_CHANGE_INTERVAL_MS of the Screenshotter: the shorter
\* spacing it applies to reason window_change
WindowChangeIntervalMs == 5000

\* trimHourly keeping nothing
TrimHourlyNone(stamps, now) == << >>

\* trimHourly(now)
TrimHourly(stamps, now) == SelectSeq(stamps, LAMBDA ts : now - ts <= OneHourMs)

\* canCapture without the minimum spacing
CanCaptureNoSpacing(now, last, stamps, o) ==
  LET trimmed == TrimHourly(stamps, now)
  IN  [ok |-> Len(trimmed) < o.maxScreenshotsPerHour, stamps |-> trimmed]

\* canCapture without the hourly cap
CanCaptureNoCap(now, last, stamps, o) ==
  IF now - last < o.minIntervalMs
    THEN [ok |-> FALSE, stamps |-> stamps]
    ELSE [ok |-> TRUE, stamps |-> TrimHourly(stamps, now)]

\* canCapture(): the verdict and hourlyTimestamps after it
CanCapture(now, last, stamps, o) ==
  IF now - last < o.minIntervalMs
    THEN [ok |-> FALSE, stamps |-> stamps]
    ELSE LET trimmed == TrimHourly(stamps, now)
         IN  [ok |-> Len(trimmed) < o.maxScreenshotsPerHour,
              stamps |-> trimmed]

\* the log without the entries that are an hour old or older
Recent(log, now) == SelectSeq(log, LAMBDA ts : now - ts < OneHourMs)

\* the log with one more entry; the newest maxScreenshotsPerHour + 1
\* entries are all that a count against the cap needs
Logged(log, now) ==
  LET all == Append(log, now)
  IN  IF Len(all) > opts.maxScreenshotsPerHour + 1 THEN Tail(all) ELSE all

\* the part of the scheduler requestCapture and the timers work on
SchedState ==
  [isIdle |-> schIdle, tbt |-> timeBasedTimer, wct |-> windowChangeTimer,
   stamps |-> hourlyTimestamps, reqs |-> reqs, calls |-> << >>,
   log |-> shotLog, notifyAt |-> notifyAt, burst |-> burstLen,
   live |-> liveTimers]

\* setTimeout(...): the event loop holds one more timer of this kind
SetTimeout(live, kind) == [live EXCEPT ![kind] = @ + 1]

\* clearTimeout(handle): the timer of the handle is dropped if it has not
\* fired yet
ClearTimeout(live, kind, handle) ==
  IF handle.state = "pending" THEN [live EXCEPT ![kind] = @ - 1] ELSE live

\* cancelTimeBasedTimer()
CancelTimeBased(st) ==
  [st EXCEPT !.tbt = NoTimer,
             !.live = ClearTimeout(st.live, "time", st.tbt)]

\* cancelWindowChangeTimer(): the burst that armed the timer is over
CancelWindowChange(st) ==
  [st EXCEPT !.wct = NoTimer, !.notifyAt = -1, !.burst = 0,
             !.live = ClearTimeout(st.live, "debounce", st.wct)]

\* a scheduleNextTimeShot that sets the new timer without cancelling the
\* one the handle holds
ScheduleKeepingOld(st, delayMs) ==
  IF st.isIdle \/ delayMs <= 0
    THEN st
    ELSE [st EXCEPT !.tbt = Armed(stime, delayMs),
                    !.live = SetTimeout(st.live, "time")]

\* scheduleNextTimeShot(delayMs)
ScheduleNextTimeShot(st, delayMs) ==
  LET c == CancelTimeBased(st)
  IN  IF c.isIdle \/ delayMs <= 0
        THEN c
        ELSE [c EXCEPT !.tbt = Armed(stime, delayMs),
                       !.live = SetTimeout(c.live, "time")]

\* the call was made by the callback of the recurring timer, which re-arms
\* the timer once the call is over
FromTimer(reason) == reason = "time_interval"

\* requestCapture(reason) up to the call of screenshotter.capture: the
\* checks, and resolveScreenIndex, which no handler of the scheduler
\* interrupts
\* the position of a reason in the fixed order in which the calls in flight
\* are listed
ReasonRank(reason) ==
  CASE reason = "time_interval" -> 1
    [] reason = "window_change" -> 2
    [] reason = "manual" -> 3
    [] reason = "tracking_start" -> 4
    [] OTHER -> 5

\* one more call awaits the provider; the calls in flight have no order of
\* their own, so they are listed by reason
AddPending(q, e) ==
  LET k == Cardinality({i \in 1..Len(q) :
                          ReasonRank(q[i].reason) <= ReasonRank(e.reason)})
  IN  SubSeq(q, 1, k) \o <<e>> \o SubSeq(q, k + 1, Len(q))

\* requestCapture that returns while another call awaits the provider
RequestCaptureGuarded(st, reason) ==
  LET called == [st EXCEPT !.calls = Append(st.calls, reason)]
      can == CanCapture(stime, lastCaptureAt, st.stamps, opts)
      over == IF FromTimer(reason)
                THEN ScheduleNextTimeShot(called, opts.timeBasedIntervalMs)
                ELSE called
  IN  IF (st.isIdle /\ reason \notin AlwaysAllowed) \/ st.reqs # << >>
        THEN over
        ELSE IF ~can.ok
          THEN [over EXCEPT !.stamps = can.stamps]
          ELSE [called EXCEPT
                  !.stamps = can.stamps,
                  !.reqs = AddPending(st.reqs, [reason |-> reason])]

RequestCapture(st, reason) ==
  LET called == [st EXCEPT !.calls = Append(st.calls, reason)]
      can == CanCapture(stime, lastCaptureAt, st.stamps, opts)
      over == IF FromTimer(reason)
                THEN ScheduleNextTimeShot(called, opts.timeBasedIntervalMs)
                ELSE called
  IN  IF st.isIdle /\ reason \notin AlwaysAllowed
        THEN over
        ELSE IF ~can.ok
          THEN [over EXCEPT !.stamps = can.stamps]
          ELSE [called EXCEPT
                  !.stamps = can.stamps,
                  !.reqs = AddPending(st.reqs, [reason |-> reason])]

\* a notification that leaves the pending timer as it is
RearmStale(old, now, delay) == old

\* clearTimeout of the pending timer, then setTimeout(..., delay) at now
Rearm(old, now, delay) == Armed(now, delay)

\* handleWindowChange()
WindowChange(st) ==
  IF st.isIdle
    THEN st
    ELSE [st EXCEPT
            !.wct = IF st.wct.state = "pending"
                      THEN Rearm(st.wct, stime, opts.windowChangeDebounceMs)
                      ELSE Armed(stime, opts.windowChangeDebounceMs),
            !.notifyAt = stime,
            !.burst = IF st.wct.state = "pending" THEN 2 ELSE 1,
            !.live = SetTimeout(ClearTimeout(st.live, "debounce", st.wct),
                                "debounce")]

\* handleIdleChange that leaves the recurring timer as it is on resume
HandleIdleChangeNoRearm(st, isIdle) ==
  LET s1 == [st EXCEPT !.isIdle = isIdle]
  IN  IF isIdle
        THEN CancelWindowChange(CancelTimeBased(s1))
        ELSE IF opts.resumeCaptureOnActive
               THEN RequestCapture(s1, "resume")
               ELSE s1

\* handleIdleChange that leaves the timers armed on idle
HandleIdleChangeKeep(st, isIdle) ==
  LET s1 == [st EXCEPT !.isIdle = isIdle]
  IN  IF isIdle
        THEN s1
        ELSE LET s2 == ScheduleNextTimeShot(s1, opts.timeBasedIntervalMs)
             IN  IF opts.resumeCaptureOnActive
                   THEN RequestCapture(s2, "resume")
                   ELSE s2

\* handleIdleChange(isIdle)
HandleIdleChange(st, isIdle) ==
  LET s1 == [st EXCEPT !.isIdle = isIdle]
  IN  IF isIdle
        THEN CancelWindowChange(CancelTimeBased(s1))
        ELSE LET s2 == ScheduleNextTimeShot(s1, opts.timeBasedIntervalMs)
             IN  IF opts.resumeCaptureOnActive
                   THEN RequestCapture(s2, "resume")
                   ELSE s2

\* IdleDetector.check(): the new lastState and the scheduler after onChange
DetectorCheck(st, reading) ==
  LET isIdle == reading * 1000 >= opts.idleThresholdMs
      state == IF isIdle THEN "idle" ELSE "active"
  IN  IF reading = -1 \/ detLast = state
        THEN [last |-> detLast, st |-> st]
        ELSE [last |-> state, st |-> HandleIdleChange(st, isIdle)]

\* the scheduler after construction, before start()
SchStart ==
  /\ stime = OneHourMs
  /\ detTimer = FALSE
  /\ detLast = "null"
  /\ timeBasedTimer = NoTimer
  /\ windowChangeTimer = NoTimer
  /\ liveTimers = [time |-> 0, debounce |-> 0]
  /\ lastCaptureAt = 0
  /\ hourlyTimestamps = << >>
  /\ schIdle = FALSE
  /\ reqs = << >>
  /\ schOp = "init"
  /\ calls = << >>
  /\ shotLog = << >>
  /\ notifyAt = -1
  /\ burstLen = 0
  /\ steps = 0

\* the scheduler with one option set, for the other components
SchDefaults ==
  /\ SchStart
  /\ opts = [minIntervalMs |-> 60000, timeBasedIntervalMs |-> 0,
             windowChangeDebounceMs |-> 3000, maxScreenshotsPerHour |-> 1,
             resumeCaptureOnActive |-> FALSE, idleThresholdMs |-> 60000]

(***************************************************************************)
(* Screenshotter (screenshotter.ts)                                        *)
(***************************************************************************)
\* config.minScreenshotInterval as config.ts sets it by default
DefaultMinScreenshotInterval == 60000
\* PERMISSION_CHECK_INTERVAL
PermissionCheckInterval == 30000
\* isSystemAsleep: no screenshot within 2000 ms of a wake-up
WakeGraceMs == 2000

\* process.platform
Platforms == {"darwin", "win32"}

\* the reasons capture() is called with
CaptureReasons == {"window_change", "manual"}

\* amounts of time that pass between two steps of the Screenshotter
ShotTimeSteps == {1000, WindowChangeIntervalMs, DefaultMinScreenshotInterval}

\* isSystemAsleep()
IsSystemAsleep == isSystemSleeping \/ shClock - lastWakeTime < WakeGraceMs

\* the minimum interval capture() applies to a reason
MinIntervalFor(reason) ==
  IF reason = "window_change" THEN WindowChangeIntervalMs
  ELSE DefaultMinScreenshotInterval

\* timeSinceLastShot < minInterval
RateLimited(reason) == shClock - lastAt < MinIntervalFor(reason)

\* checkPermission() answers from its cache
PermissionCached ==
  hasPermission # "null"
    /\ shClock - lastPermissionCheck < PermissionCheckInterval

\* what the test capture of checkPermission() may do: a usable buffer, a
\* buffer that is too small or empty, an error that names the permission,
\* another error
PermissionOutcomes == {"granted", "unusable", "denied", "error"}

\* what screenshot() of screenshot-desktop may do: a picture, a picture the
\* black filter rejects, an empty buffer, a buffer that decodes to an empty
\* image, a picture whose data URL is invalid, a picture that cannot be
\* written to disk, an error that names the permission, another error
PrimaryOutcomes ==
  {"good", "black", "emptyBuffer", "emptyImage", "badUrl", "unwritable",
   "denied", "error"}

\* what the renderer fallback may do: nothing within 15 s or an empty
\* string, a picture, a picture the black filter rejects, a string that
\* decodes to an empty image whose toDataURL() starts with data:image, one
\* whose toDataURL() does not, a picture that cannot be written to disk, an
\* error
FallbackOutcomes ==
  {"none", "good", "black", "empty", "emptyBad", "unwritable", "error"}

\* the locals of a capture() call suspended at an await
CaptureCallOf(reason, pc) == [reason |-> reason, now |-> shClock, pc |-> pc]

\* the screenshot event passed to onShot, with the image it carries
ShotEvent(c, image) == [reason |-> c.reason, now |-> c.now, image |-> image]

\* what a step of capture() reports: the stage that ran and what the call
\* returned, "pending" while it is suspended, "throw" when it rejected
ShotOp(op, result) == [op |-> op, result |-> result]

\* the Screenshotter after construction
ShStart ==
  /\ shClock = OneHourMs
  /\ lastAt = 0
  /\ isSystemSleeping = FALSE
  /\ lastWakeTime = OneHourMs
  /\ hasPermission = "null"
  /\ lastPermissionCheck = 0
  /\ caps = << >>
  /\ shOp = ShotOp("init", "none")
  /\ shEmit = << >>
  /\ shSteps = 0

(***************************************************************************)
(* ScreenshotScheduler.resolveScreenIndex: the display a capture is taken  *)
(* from.  An optional value is << >> when it is undefined and <<v>> when   *)
(* it is v; coordinates are whole pixels.                                  *)
(***************************************************************************)
\* an undefined property
Absent == << >>

\* typeof v === "number"
IsNumber(v) == v # Absent

Rect(x, y, width, height) ==
  [x |-> x, y |-> y, width |-> width, height |-> height]

\* a display that carries nothing resolveScreenIndex reads
BlankDisplay ==
  [bounds |-> Absent, left |-> Absent, top |-> Absent, width |-> Absent,
   height |-> Absent, right |-> Absent, bottom |-> Absent]

\* a display of one of the shapes normalizeDisplay tells apart:
\* { bounds: {x, y, width, height} }, { bounds: {x, y}, width, height },
\* { left, top, width, height }, { left, top, right, bottom } and, without
\* a position, { width, height }
DisplayOf(shape, r) ==
  CASE shape = "bounds" ->
         [BlankDisplay EXCEPT !.bounds = <<[x |-> <<r.x>>, y |-> <<r.y>>,
                                             width |-> <<r.width>>,
                                             height |-> <<r.height>>]>>]
    [] shape = "bareBounds" ->
         [BlankDisplay EXCEPT !.bounds = <<[x |-> <<r.x>>, y |-> <<r.y>>,
                                             width |-> Absent,
                                             height |-> Absent]>>,
                              !.width = <<r.width>>, !.height = <<r.height>>]
    [] shape = "ltwh" ->
         [BlankDisplay EXCEPT !.left = <<r.x>>, !.top = <<r.y>>,
                              !.width = <<r.width>>, !.height = <<r.height>>]
    [] shape = "ltrb" ->
         [BlankDisplay EXCEPT !.left = <<r.x>>, !.top = <<r.y>>,
                              !.right = <<r.x + r.width>>,
                              !.bottom = <<r.y + r.height>>]
    [] shape = "size" ->
         [BlankDisplay EXCEPT !.width = <<r.width>>, !.height = <<r.height>>]

\* two monitors side by side, sharing the edge x = 4
LeftMonitor == Rect(0, 0, 4, 4)

RightMonitor == Rect(4, 0, 4, 4)

\* the displays listDisplays() may list
Displays ==
  {DisplayOf(shape, r) : shape \in {"bounds", "ltwh", "ltrb"},
                         r \in {LeftMonitor, RightMonitor}}
    \cup {DisplayOf("bareBounds", RightMonitor), DisplayOf("size", LeftMonitor)}

DisplayLists == UNION { [1..n -> Displays] : n \in 0..MaxDisplays }

\* the bounds a focused window may have: inside the left monitor, centred
\* on the shared edge, centred at half a pixel inside the right monitor,
\* centred on the bottom edge of the left monitor, and off every monitor
WindowBounds ==
  {Rect(0, 0, 4, 4), Rect(2, 1, 4, 2), Rect(5, 1, 3, 2), Rect(0, 2, 4, 4),
   Rect(9, 9, 2, 2)}

ScreenshotTargetModes == {"primary", "active", "all"}

\* resolveScreenIndex() returns undefined
Undefined == -1

\* normalizeDisplay; null is Absent.  A display that is null or undefined
\* is normalised like BlankDisplay
NormalizeDisplay(display) ==
  IF display.bounds # Absent
    THEN LET b == display.bounds[1]
         IN  <<Rect(IF IsNumber(b.x) THEN b.x[1] ELSE 0,
                    IF IsNumber(b.y) THEN b.y[1] ELSE 0,
                    IF IsNumber(b.width) THEN b.width[1]
                      ELSE IF IsNumber(display.width) THEN display.width[1]
                      ELSE 0,
                    IF IsNumber(b.height) THEN b.height[1]
                      ELSE IF IsNumber(display.height) THEN display.height[1]
                      ELSE 0)>>
    ELSE IF /\ IsNumber(display.left) /\ IsNumber(display.top)
            /\ IsNumber(display.width) /\ IsNumber(display.height)
      THEN <<Rect(display.left[1], display.top[1], display.width[1],
                  display.height[1])>>
      ELSE IF /\ IsNumber(display.left) /\ IsNumber(display.top)
              /\ IsNumber(display.right) /\ IsNumber(display.bottom)
        THEN <<Rect(display.left[1], display.top[1],
                    display.right[1] - display.left[1],
                    display.bottom[1] - display.top[1])>>
        ELSE Absent

\* boundsMatchDisplay: the centre target.x + target.width / 2,
\* target.y + target.height / 2 is compared at twice its value, which
\* is a whole number
BoundsMatchDisplay(display, target) ==
  LET rect == NormalizeDisplay(display)
  IN  /\ rect # Absent
      /\ 2 * target.x + target.width >= 2 * rect[1].x
      /\ 2 * target.x + target.width <= 2 * (rect[1].x + rect[1].width)
      /\ 2 * target.y + target.height >= 2 * rect[1].y
      /\ 2 * target.y + target.height <= 2 * (rect[1].y + rect[1].height)

\* Array.prototype.findLastIndex over boundsMatchDisplay
FindLastIndex(list, target) ==
  LET hits == {i \in 1..Len(list) : BoundsMatchDisplay(list[i], target)}
  IN  IF hits = {} THEN -1
      ELSE (CHOOSE i \in hits : \A j \in hits : j <= i) - 1

\* displays.findIndex(display => boundsMatchDisplay(display, target)):
\* indices count from 0, -1 when no display matches
FindIndex(list, target) ==
  LET hits == {i \in 1..Len(list) : BoundsMatchDisplay(list[i], target)}
  IN  IF hits = {} THEN -1
      ELSE (CHOOSE i \in hits : \A j \in hits : i <= j) - 1

\* lines 217-227: the target rectangle, Absent when undefined
TargetBounds ==
  IF screenshotTarget = "primary"
    THEN primaryBounds
    ELSE IF screenshotTarget = "active"
      THEN IF latestWindowInfo # Absent
             THEN latestWindowInfo
             ELSE primaryBounds
      ELSE Absent

\* resolveScreenIndex() falling back to index 0 in every mode but all
ResolveScreenIndexZero ==
  IF screenshotTarget = "all"
    THEN Undefined
    ELSE IF listing # "ok" \/ Len(displays) = 0 \/ TargetBounds = Absent
      THEN Undefined
      ELSE LET matchIndex == FindIndex(displays, TargetBounds[1])
           IN  IF matchIndex >= 0 THEN matchIndex ELSE 0

\* resolveScreenIndex()
ResolveScreenIndex ==
  IF screenshotTarget = "all"
    THEN Undefined
    ELSE IF listing = "missing"
      THEN Undefined
      ELSE IF listing = "throws"
        THEN Undefined
        ELSE IF Len(displays) = 0
          THEN Undefined
          ELSE IF TargetBounds = Absent
            THEN Undefined
            ELSE LET matchIndex == FindIndex(displays, TargetBounds[1])
                 IN  IF matchIndex >= 0
                       THEN matchIndex
                       ELSE IF screenshotTarget = "primary"
                         THEN 0
                         ELSE Undefined

\* the scheduler before any window was seen and any index was resolved
RsStart ==
  /\ latestWindowInfo = Absent
  /\ screenIndex = Undefined
  /\ rsOp = "init"

\* a scheduler that captures all screens, for the other components
RsDefaults ==
  /\ RsStart
  /\ screenshotTarget = "all"
  /\ listing = "ok"
  /\ displays = << >>
  /\ primaryBounds = Absent

\* the Screenshotter as main.ts constructs it, for the other components
ShDefaults ==
  /\ ShStart
  /\ platform = "win32"

\* the tracker with the default options, for the other components
TrkDefaults ==
  /\ TrkStart
  /\ intervalMs = DefaultIntervalMs
  /\ minActivityDuration = DefaultMinActivityDuration
  /\ maxIdleTime = DefaultMaxIdleTime

\* new EventBuffer(batchSize, maxSize), also with the program's defaults
InitBuffer ==
  /\ BufStart
  /\ \/ batchSize \in 1..MaxCap /\ maxSize \in 1..MaxCap
     \/ batchSize = DefaultBatchSize /\ maxSize = DefaultMaxSize
  /\ TrkDefaults
  /\ SchDefaults
  /\ ShDefaults
  /\ RsDefaults

\* the engine after createWindow: setupTracking, then startTracking
InitDispatch ==
  /\ BufStart
  /\ batchSize \in 1..MaxCap
  /\ maxSize \in 1..MaxCap
  /\ TrkDefaults
  /\ SchDefaults
  /\ ShDefaults
  /\ RsDefaults

(***************************************************************************)
(* Specification of the EventBuffer class alone: add and drain called      *)
(* directly, in any order.                                                 *)
(***************************************************************************)
\* EventBuffer.add(e) with a new event instance
Add ==
  /\ nextId <= MaxAdds
  /\ events' = BufferAdd(events, nextId, maxSize)
  /\ evicted' = BufferEvicted(events, maxSize)
  /\ everFull' = (everFull \/ BufferSize(events') >= maxSize)
  /\ addResult' = BufferAddReturn(events', batchSize)
  /\ nextId' = nextId + 1
  /\ lastOp' = "add"
  /\ UNCHANGED <<batchSize, maxSize, inflight, isTracking, flushTimer,
                 drained, delivered, reqBatch, reqTouched>>
  /\ OutsideBuf

\* EventBuffer.drain()
Drain ==
  /\ drained' = BufferDrainReturn(events)
  /\ events' = BufferDrainRest(events)
  /\ evicted' = {}
  /\ lastOp' = "drain"
  /\ UNCHANGED <<batchSize, maxSize, inflight, isTracking, flushTimer,
                 nextId, addResult, delivered, everFull, reqBatch, reqTouched>>
  /\ OutsideBuf

NextBuffer == Add \/ Drain

SpecBuffer == InitBuffer /\ [][NextBuffer]_vars

(***************************************************************************)
(* The flush loop of main.ts.                                              *)
(***************************************************************************)
\* a catch block that only reports the error
RequeueNothing(q, batch, max) == q

\* a catch block that puts the failed batch back in front of the buffer
RequeueFront(q, batch, max) == batch \o q

\* events.forEach((e) => buffer.add(e)) of the catch block of flushNow
RECURSIVE Requeue(_, _, _)
Requeue(q, batch, max) ==
  IF batch = << >> THEN q
  ELSE Requeue(BufferAdd(q, Head(batch), max), Tail(batch), max)

\* the events the forEach of the catch block drops
RECURSIVE RequeueEvicted(_, _, _)
RequeueEvicted(q, batch, max) ==
  IF batch = << >> THEN {}
  ELSE BufferEvicted(q, max)
         \cup RequeueEvicted(BufferAdd(q, Head(batch), max), Tail(batch), max)

\* every upload in flight has now seen an add on the buffer
Touch(fl) == [i \in 1..Len(fl) |-> [fl[i] EXCEPT !.touched = TRUE]]

\* a flushNow that uploads the buffer without draining it
FlushStartKeep(q, fl) ==
  IF Len(q) = 0
    THEN [q |-> q, fl |-> fl]
    ELSE [q |-> q, fl |-> Append(fl, [evs |-> q, touched |-> FALSE])]

\* flushNow up to its await: drain, return if empty, else start the upload
FlushStart(q, fl) ==
  IF Len(BufferDrainReturn(q)) = 0
    THEN [q |-> BufferDrainRest(q), fl |-> fl]
    ELSE [q |-> BufferDrainRest(q),
          fl |-> Append(fl, [evs |-> BufferDrainReturn(q), touched |-> FALSE])]

\* whether the flush that onEvent starts fits the model's bound on uploads
FlushFits(q) == Len(q) = 0 \/ Len(inflight) < MaxInflight

\* onEvent(e): buffer.add(e), then flushNow() when size() >= batchSize
OnEvent ==
  /\ isTracking
  /\ nextId <= MaxEvents
  /\ LET q1 == BufferAdd(events, nextId, maxSize)
         r  == IF BufferSize(q1) >= batchSize
                 THEN FlushStart(q1, Touch(inflight))
                 ELSE [q |-> q1, fl |-> Touch(inflight)]
     IN  /\ BufferSize(q1) >= batchSize => FlushFits(q1)
         /\ events' = r.q
         /\ inflight' = r.fl
         /\ addResult' = BufferAddReturn(q1, batchSize)
  /\ evicted' = BufferEvicted(events, maxSize)
  /\ everFull' = (everFull
                    \/ BufferSize(BufferAdd(events, nextId, maxSize)) >= maxSize)
  /\ nextId' = nextId + 1
  /\ lastOp' = "onEvent"
  /\ reqBatch' = << >>
  /\ reqTouched' = FALSE
  /\ UNCHANGED <<batchSize, maxSize, isTracking, flushTimer, delivered,
                 drained>>
  /\ OutsideBuf

\* the setInterval callback of setupTracking: flushNow()
FlushTick ==
  /\ flushTimer
  /\ FlushFits(events)
  /\ LET r == FlushStart(events, inflight)
     IN  /\ events' = r.q
         /\ inflight' = r.fl
  /\ evicted' = {}
  /\ lastOp' = "flush"
  /\ reqBatch' = << >>
  /\ reqTouched' = FALSE
  /\ addResult' = FALSE
  /\ UNCHANGED <<batchSize, maxSize, isTracking, flushTimer, nextId,
                 drained, delivered, everFull>>
  /\ OutsideBuf

\* sendActivityBatch resolves: flushNow ends without touching the buffer
UploadOk(i) ==
  /\ i \in 1..Len(inflight)
  /\ delivered' = delivered \cup SeqToSet(inflight[i].evs)
  /\ inflight' = RemoveAt(inflight, i)
  /\ evicted' = {}
  /\ lastOp' = "uploadOk"
  /\ reqBatch' = << >>
  /\ reqTouched' = FALSE
  /\ addResult' = FALSE
  /\ UNCHANGED <<events, batchSize, maxSize, isTracking, flushTimer, nextId,
                 drained, everFull>>
  /\ OutsideBuf

\* a catch block whose re-adds go through onEvent: flushNow() when the
\* requeued size reaches batchSize
UploadFailFlush(i) ==
  /\ i \in 1..Len(inflight)
  /\ LET q1 == Requeue(events, inflight[i].evs, maxSize)
         r  == IF BufferSize(q1) >= batchSize
                 THEN FlushStart(q1, Touch(RemoveAt(inflight, i)))
                 ELSE [q |-> q1, fl |-> Touch(RemoveAt(inflight, i))]
     IN  /\ events' = r.q
         /\ inflight' = r.fl
         /\ everFull' = (everFull \/ BufferSize(q1) >= maxSize)
         /\ addResult' = BufferAddReturn(q1, batchSize)
  /\ evicted' = RequeueEvicted(events, inflight[i].evs, maxSize)
  /\ reqBatch' = inflight[i].evs
  /\ reqTouched' = inflight[i].touched
  /\ lastOp' = "uploadFail"
  /\ UNCHANGED <<batchSize, maxSize, isTracking, flushTimer, nextId,
                 drained, delivered>>
  /\ OutsideBuf

\* sendActivityBatch rejects: the catch block re-adds the drained events
UploadFail(i) ==
  /\ i \in 1..Len(inflight)
  /\ events' = Requeue(events, inflight[i].evs, maxSize)
  /\ evicted' = RequeueEvicted(events, inflight[i].evs, maxSize)
  /\ everFull' = (everFull \/ BufferSize(events') >= maxSize)
  /\ addResult' = BufferAddReturn(events', batchSize)
  /\ inflight' = Touch(RemoveAt(inflight, i))
  /\ reqBatch' = inflight[i].evs
  /\ reqTouched' = inflight[i].touched
  /\ lastOp' = "uploadFail"
  /\ UNCHANGED <<batchSize, maxSize, isTracking, flushTimer, nextId,
                 drained, delivered>>
  /\ OutsideBuf

\* stopTracking(): stops the trackers, leaves buffer and flushTimer alone
StopTracking ==
  /\ isTracking
  /\ isTracking' = FALSE
  /\ evicted' = {}
  /\ lastOp' = "stop"
  /\ reqBatch' = << >>
  /\ reqTouched' = FALSE
  /\ addResult' = FALSE
  /\ UNCHANGED <<events, batchSize, maxSize, inflight, flushTimer, nextId,
                 drained, delivered, everFull>>
  /\ OutsideBuf

\* the buffer setupTracking constructs: new EventBuffer(config.batchSize)
SetupBuffer(q) == << >>

\* startTracking(): setupTracking() (new buffer, new flush timer), start
StartTracking ==
  /\ ~isTracking
  /\ events' = SetupBuffer(events)
  /\ flushTimer' = TRUE
  /\ isTracking' = TRUE
  /\ evicted' = {}
  /\ lastOp' = "start"
  /\ reqBatch' = << >>
  /\ reqTouched' = FALSE
  /\ addResult' = FALSE
  /\ UNCHANGED <<batchSize, maxSize, inflight, nextId, drained, delivered,
                 everFull>>
  /\ OutsideBuf

NextDispatch ==
  \/ OnEvent
  \/ FlushTick
  \/ \E i \in 1..MaxInflight : UploadOk(i)
  \/ \E i \in 1..MaxInflight : UploadFail(i)
  \/ StopTracking
  \/ StartTracking

SpecDispatch == InitDispatch /\ [][NextDispatch]_vars

InitTracker ==
  /\ BufStart
  /\ batchSize = DefaultBatchSize
  /\ maxSize = DefaultMaxSize
  /\ TrkStart
  /\ intervalMs \in TrackingIntervals
  /\ minActivityDuration = DefaultMinActivityDuration
  /\ maxIdleTime = DefaultMaxIdleTime
  /\ SchDefaults
  /\ ShDefaults
  /\ RsDefaults

\* the latest time by which the await a tick is suspended at resolves
Deadline(t) ==
  IF t.pc = "probe"
    THEN t.now + ProbeTimeoutMs
    ELSE t.now + ProbeTimeoutMs + SiTimeoutMs + ExecTimeoutMs

\* the clock can reach time without a suspended tick missing its deadline
CanReach(time) == \A t \in ticks : time <= Deadline(t)

\* start(): arm the interval timer unless it is armed
TrackerStart ==
  /\ ~timerOn
  /\ timerOn' = TRUE
  /\ trkOp' = PlainStep("start", clock)
  /\ lastEmit' = << >>
  /\ lastChange' = << >>
  /\ UNCHANGED <<clock, intervalMs, minActivityDuration, maxIdleTime,
                 lastWindow, lastTimestamp, lastActivityAt, idleActive, ticks,
                 idleFrom, idleWin, idleEmits, overlapped, gapped,
                 idleSeenAt>>
  /\ OutsideTrk

\* stop(): clear the interval timer; suspended ticks go on
TrackerStop ==
  /\ timerOn
  /\ timerOn' = FALSE
  /\ trkOp' = PlainStep("stop", clock)
  /\ lastEmit' = << >>
  /\ lastChange' = << >>
  /\ UNCHANGED <<clock, intervalMs, minActivityDuration, maxIdleTime,
                 lastWindow, lastTimestamp, lastActivityAt, idleActive, ticks,
                 idleFrom, idleWin, idleEmits, overlapped, gapped,
                 idleSeenAt>>
  /\ OutsideTrk

\* one poll period passes while the timer is not armed
Elapse ==
  /\ ~timerOn
  /\ clock + intervalMs <= MaxTicks * intervalMs
  /\ CanReach(clock + intervalMs)
  /\ clock' = clock + intervalMs
  /\ trkOp' = PlainStep("elapse", clock')
  /\ lastEmit' = << >>
  /\ lastChange' = << >>
  /\ gapped' = TRUE
  /\ UNCHANGED <<intervalMs, minActivityDuration, maxIdleTime, timerOn,
                 lastWindow, lastTimestamp, lastActivityAt, idleActive, ticks,
                 idleFrom, idleWin, idleEmits, overlapped, idleSeenAt>>
  /\ OutsideTrk

\* the interval fires: tick() reads the clock and awaits the window probe
TickStart(hung) ==
  /\ timerOn
  /\ clock + intervalMs <= MaxTicks * intervalMs
  /\ Cardinality(ticks) < MaxOverlap
  /\ CanReach(clock + intervalMs)
  /\ clock' = clock + intervalMs
  /\ ticks' = ticks \cup {ProbingTick(clock', hung)}
  /\ trkOp' = PlainStep("tick", clock')
  /\ lastEmit' = << >>
  /\ lastChange' = << >>
  /\ overlapped' = (overlapped \/ ticks # {})
  /\ UNCHANGED <<intervalMs, minActivityDuration, maxIdleTime, timerOn,
                 lastWindow, lastTimestamp, lastActivityAt, idleActive,
                 idleFrom, idleWin, idleEmits, gapped, idleSeenAt>>
  /\ OutsideTrk

\* the bookkeeping with the max session chunk tested before the idle
\* transition
AfterRecordChunkFirst(t) ==
  IF t.windowChanged
    THEN /\ lastWindow' = t.active
         /\ lastTimestamp' = t.now
         /\ idleActive' = t.isIdle
         /\ lastActivityAt' = IF ~t.isIdle THEN t.now ELSE lastActivityAt
         /\ lastChange' = <<t.active>>
    ELSE IF t.duration >= MaxSessionDuration
      THEN /\ lastTimestamp' = t.now
           /\ lastChange' = << >>
           /\ UNCHANGED <<lastWindow, lastActivityAt, idleActive>>
      ELSE IF t.isIdle
        THEN /\ lastTimestamp' = t.now
             /\ idleActive' = TRUE
             /\ lastChange' = << >>
             /\ UNCHANGED <<lastWindow, lastActivityAt>>
        ELSE /\ lastChange' = << >>
             /\ UNCHANGED <<lastWindow, lastTimestamp, lastActivityAt,
                            idleActive>>

\* lines 149-167: the bookkeeping after a recordable transition
AfterRecord(t) ==
  IF t.windowChanged
    THEN /\ lastWindow' = t.active
         /\ lastTimestamp' = t.now
         /\ idleActive' = t.isIdle
         /\ lastActivityAt' = IF ~t.isIdle THEN t.now ELSE lastActivityAt
         /\ lastChange' = <<t.active>>
    ELSE IF t.isIdle
      THEN /\ lastTimestamp' = t.now
           /\ idleActive' = TRUE
           /\ lastChange' = << >>
           /\ UNCHANGED <<lastWindow, lastActivityAt>>
      ELSE IF t.duration >= MaxSessionDuration
        THEN /\ lastTimestamp' = t.now
             /\ lastChange' = << >>
             /\ UNCHANGED <<lastWindow, lastActivityAt, idleActive>>
        ELSE /\ lastChange' = << >>
             /\ UNCHANGED <<lastWindow, lastTimestamp, lastActivityAt,
                            idleActive>>

\* the history of the idle transition: a tick on which the idle signal
\* became true opens it, an active reading or another window closes it
IdleHistory(t, triggers, emitted) ==
  IF idleFrom # -1 /\ t.isIdle /\ Equals(t.active, idleWin)
    THEN UNCHANGED <<idleFrom, idleWin, idleEmits>>
    ELSE IF triggers
      THEN /\ idleFrom' = t.now
           /\ idleWin' = t.active
           /\ idleEmits' = emitted
      ELSE /\ idleFrom' = -1
           /\ idleWin' = NullWindow
           /\ idleEmits' = 0

\* the window probe (or its timeout) resolves: lines 84-148 up to the
\* await of buildProcessContext, and the rest of tick() when it does not
\* suspend
ProbeReturn(tk, active, reading) ==
  /\ tk \in ticks
  /\ tk.pc = "probe"
  /\ ProbeSettles(tk)
  /\ active = Raced(tk, active)
  /\ LET isIdle == IsSystemIdle(reading, tk.now)
         windowChanged == ~Equals(active, lastWindow)
         duration == tk.now - lastTimestamp
         t == [tk EXCEPT !.active = active, !.isIdle = isIdle,
                         !.windowChanged = windowChanged,
                         !.duration = duration, !.prev = lastWindow]
     IN  IF lastWindow = NullWindow
           THEN \* first tick: adopt the snapshot
                /\ lastWindow' = active
                /\ lastTimestamp' = tk.now
                /\ lastActivityAt' = tk.now
                /\ idleActive' = isIdle
                /\ ticks' = ticks \ {tk}
                /\ lastEmit' = << >>
                /\ lastChange' = << >>
                /\ trkOp' = TrackerStep("first", tk.now, FALSE, 0, isIdle,
                                         active)
                /\ IdleHistory(t, FALSE, 0)
           ELSE IF Resumes(isIdle)
             THEN \* resume after idle
                  /\ idleActive' = FALSE
                  /\ lastTimestamp' = tk.now
                  /\ lastActivityAt' = tk.now
                  /\ lastWindow' = IF windowChanged THEN active ELSE lastWindow
                  /\ lastChange' = IF windowChanged THEN <<active>> ELSE << >>
                  /\ ticks' = ticks \ {tk}
                  /\ lastEmit' = << >>
                  /\ trkOp' = TrackerStep("resume", tk.now, FALSE, 0,
                                           isIdle, active)
                  /\ IdleHistory(t, FALSE, 0)
             ELSE LET should == ShouldRecord(windowChanged, isIdle, duration)
                  IN  /\ trkOp' = TrackerStep("probe", tk.now, should,
                                               duration, isIdle, active)
                      /\ IF should /\ LongEnough(duration)
                              /\ ContextSuspends(lastWindow)
                           THEN \* await buildProcessContext
                                /\ ticks' = (ticks \ {tk})
                                              \cup {[t EXCEPT !.pc = "context",
                                                               !.hung = FALSE]}
                                /\ lastEmit' = << >>
                                /\ lastChange' = << >>
                                /\ IdleHistory(t, isIdle /\ ~idleActive, 0)
                                /\ UNCHANGED <<lastWindow, lastTimestamp,
                                               lastActivityAt, idleActive>>
                           ELSE /\ ticks' = ticks \ {tk}
                                /\ lastEmit' = IF should /\ LongEnough(duration)
                                                 THEN <<ActivityEvent(t)>>
                                                 ELSE << >>
                                /\ IF should
                                     THEN AfterRecord(t)
                                     ELSE /\ lastChange' = << >>
                                          /\ UNCHANGED <<lastWindow,
                                               lastTimestamp, lastActivityAt,
                                               idleActive>>
                                /\ IdleHistory(t,
                                     isIdle /\ ~idleActive
                                       /\ duration >= minActivityDuration,
                                     IF should /\ LongEnough(duration)
                                       THEN 1 ELSE 0)
  /\ idleSeenAt' = IF IsSystemIdle(reading, tk.now) /\ tk.now > idleSeenAt
                      THEN tk.now ELSE idleSeenAt
  /\ UNCHANGED <<clock, intervalMs, minActivityDuration, maxIdleTime, timerOn,
                 overlapped, gapped>>
  /\ OutsideTrk

\* buildProcessContext resolves: the event is built from this.lastWindow
\* and passed to onEvent, then lines 149-167 run with the tick's locals
ContextReturn(tk) ==
  /\ tk \in ticks
  /\ tk.pc = "context"
  /\ lastEmit' = <<ActivityEvent(tk)>>
  /\ AfterRecord(tk)
  /\ ticks' = ticks \ {tk}
  /\ trkOp' = TrackerStep("context", tk.now, TRUE, tk.duration, tk.isIdle,
                          tk.active)
  /\ idleEmits' = IF tk.now = idleFrom THEN idleEmits + 1 ELSE idleEmits
  /\ UNCHANGED <<clock, intervalMs, minActivityDuration, maxIdleTime, timerOn,
                 idleFrom, idleWin, overlapped, gapped, idleSeenAt>>
  /\ OutsideTrk

\* the records are not summed up
Unsummed == UNCHANGED sumVars

\* the step is a recordable transition of a tick that is too short for a
\* record
Suppressed(step) ==
  /\ step.op = "probe"
  /\ step.should
  /\ step.duration < minActivityDuration

\* the duration of the event the step passes to onEvent is added to the
\* account, the time of the first tick is kept, and so is the interval of
\* a suppressed record
Summed ==
  /\ skipped' = IF Suppressed(trkOp') /\ trkOp'.duration > 0
                  THEN skipped \cup {<<trkOp'.tick - trkOp'.duration,
                                       trkOp'.tick>>}
                  ELSE skipped
  /\ recorded' = recorded + (IF lastEmit' # << >>
                               THEN lastEmit'[1].durationMs ELSE 0)
  /\ firstTickAt' = IF firstTickAt = -1 /\ trkOp'.op = "tick"
                      THEN trkOp'.tick ELSE firstTickAt

NextTracker ==
  \/ TrackerStart /\ Unsummed
  \/ TrackerStop /\ Unsummed
  \/ Elapse /\ Unsummed
  \/ \E hung \in BOOLEAN : TickStart(hung) /\ Unsummed
  \/ \E tk \in ticks, active \in Snapshots, reading \in IdleReadings :
       ProbeReturn(tk, active, reading) /\ Unsummed
  \/ \E tk \in ticks : ContextReturn(tk) /\ Unsummed

SpecTracker == InitTracker /\ [][NextTracker]_vars

\* the poll loop of a started tracker: the interval fires and the awaits of
\* the ticks resolve
NextPolling ==
  \/ TrackerStart /\ Unsummed
  \/ \E hung \in BOOLEAN : TickStart(hung) /\ Unsummed
  \/ \E tk \in ticks, active \in Snapshots, reading \in IdleReadings :
       ProbeReturn(tk, active, reading) /\ Unsummed
  \/ \E tk \in ticks : ContextReturn(tk) /\ Unsummed

\* the awaits of a tick end: the window probe is raced against timers and
\* the lookups of buildProcessContext have timeouts of their own
SpecTrackerFair ==
  /\ InitTracker
  /\ [][NextPolling]_vars
  /\ WF_vars(\/ \E tk \in ticks, active \in Snapshots,
                    reading \in IdleReadings :
                  ProbeReturn(tk, active, reading) /\ Unsummed
             \/ \E tk \in ticks : ContextReturn(tk) /\ Unsummed)

\* the poll loop with the account of the records kept
NextTrackerSum ==
  \/ TrackerStart /\ Summed
  \/ \E hung \in BOOLEAN : TickStart(hung) /\ Summed
  \/ \E tk \in ticks, active \in Snapshots, reading \in IdleReadings :
       ProbeReturn(tk, active, reading) /\ Summed
  \/ \E tk \in ticks : ContextReturn(tk) /\ Summed

SpecTrackerSum == InitTracker /\ [][NextTrackerSum]_vars

\* a tracker whose idle probe is never available: isSystemIdle falls back
\* to the internal last-activity clock on every tick
InitFallback ==
  /\ BufStart
  /\ batchSize = DefaultBatchSize
  /\ maxSize = DefaultMaxSize
  /\ TrkStart
  /\ intervalMs \in TrackingIntervals
  /\ minActivityDuration = DefaultMinActivityDuration
  /\ maxIdleTime \in {ShortIdleTime, DefaultMaxIdleTime}
  /\ SchDefaults
  /\ ShDefaults
  /\ RsDefaults

NextFallback ==
  \/ TrackerStart /\ Unsummed
  \/ \E hung \in BOOLEAN : TickStart(hung) /\ Unsummed
  \/ \E tk \in ticks, active \in Snapshots :
       ProbeReturn(tk, active, IdleUnavailable) /\ Unsummed
  \/ \E tk \in ticks : ContextReturn(tk) /\ Unsummed

SpecTrackerFallback == InitFallback /\ [][NextFallback]_vars

(***************************************************************************)
(* Specification of the ScreenshotScheduler.                               *)
(***************************************************************************)
InitScheduler ==
  /\ BufStart
  /\ batchSize = DefaultBatchSize
  /\ maxSize = DefaultMaxSize
  /\ TrkDefaults
  /\ SchStart
  /\ opts \in OptionSets
  /\ ShDefaults
  /\ RsDefaults

\* the scheduler fields a step leaves as st has them
Commit(st) ==
  /\ schIdle' = st.isIdle
  /\ timeBasedTimer' = st.tbt
  /\ windowChangeTimer' = st.wct
  /\ liveTimers' = st.live
  /\ hourlyTimestamps' = st.stamps
  /\ reqs' = st.reqs
  /\ calls' = st.calls
  /\ shotLog' = st.log
  /\ notifyAt' = st.notifyAt
  /\ burstLen' = st.burst
  /\ Len(st.reqs) <= MaxReqs

\* one more stimulus is delivered
Stimulus ==
  /\ steps < MaxSteps
  /\ steps' = steps + 1

\* start(); reading is what the idle detector's first check reads
SchedulerStart(reading) ==
  LET chk == DetectorCheck(SchedState, reading)
      s1 == [chk.st EXCEPT !.isIdle = FALSE]
      s2 == ScheduleNextTimeShot(s1, opts.timeBasedIntervalMs)
      s3 == RequestCapture(s2, "tracking_start")
  IN  /\ Stimulus
      /\ Commit(s3)
      /\ detLast' = chk.last
      /\ detTimer' = TRUE
      /\ schOp' = "start"
      /\ UNCHANGED <<stime, opts, lastCaptureAt>>
      /\ OutsideSch

\* stop()
SchedulerStop ==
  LET s1 == CancelWindowChange(CancelTimeBased(SchedState))
  IN  /\ Stimulus
      /\ Commit([s1 EXCEPT !.stamps = << >>, !.log = << >>])
      /\ detTimer' = FALSE
      /\ detLast' = "null"
      /\ lastCaptureAt' = 0
      /\ schOp' = "stop"
      /\ UNCHANGED <<stime, opts>>
      /\ OutsideSch

\* handleWindowChange()
HandleWindowChange ==
  /\ Stimulus
  /\ Commit(WindowChange(SchedState))
  /\ schOp' = "windowChange"
  /\ UNCHANGED <<stime, opts, detTimer, detLast, lastCaptureAt>>
  /\ OutsideSch

\* the callback of the debounce timer
DebounceFire ==
  /\ windowChangeTimer.state = "pending"
  /\ windowChangeTimer.due = stime
  /\ Commit(RequestCapture([SchedState EXCEPT
                               !.wct = NoTimer,
                               !.notifyAt = -1,
                               !.live = [@ EXCEPT !.debounce = @ - 1]],
                           "window_change"))
  /\ schOp' = "debounceFire"
  /\ UNCHANGED <<stime, opts, detTimer, detLast, lastCaptureAt, steps>>
  /\ OutsideSch

\* the callback of the recurring timer, up to the await of requestCapture
\* and, when that call returns at once, to the end
TimeShotFire ==
  /\ timeBasedTimer.state = "pending"
  /\ timeBasedTimer.due = stime
  /\ Commit(RequestCapture([SchedState EXCEPT
                               !.tbt = Fired,
                               !.live = [@ EXCEPT !.time = @ - 1]],
                           "time_interval"))
  /\ schOp' = "timeShotFire"
  /\ UNCHANGED <<stime, opts, detTimer, detLast, lastCaptureAt, steps>>
  /\ OutsideSch

\* what check() did: nothing, or the notification it made
Checked(before, after) ==
  CASE after = before -> "idleCheck"
    [] after = "idle" -> "becameIdle"
    [] before = "idle" -> "becameActive"
    [] OTHER -> "firstActive"

\* the callback of the idle detector's interval: check()
IdleCheck(reading) ==
  /\ detTimer
  /\ Stimulus
  /\ LET chk == DetectorCheck(SchedState, reading)
     IN  /\ Commit(chk.st)
         /\ detLast' = chk.last
         /\ schOp' = Checked(detLast, chk.last)
  /\ UNCHANGED <<stime, opts, detTimer, lastCaptureAt>>
  /\ OutsideSch

\* the reasons requestCapture is called with from outside the scheduler
ExternalReasons == {"manual", "window_change"}

\* the name of the step in which requestCapture(reason) is called from
\* outside
Requested(reason) ==
  CASE reason = "manual" -> "requestManual"
    [] reason = "window_change" -> "requestWindowChange"

\* requestCapture(reason) called from outside
ExternalRequest(reason) ==
  /\ Stimulus
  /\ Commit([RequestCapture(SchedState, reason) EXCEPT !.calls = << >>])
  /\ schOp' = Requested(reason)
  /\ UNCHANGED <<stime, opts, detTimer, detLast, lastCaptureAt>>
  /\ OutsideSch

\* what the capture provider does with a call: it resolves true after a
\* screenshot, resolves false when it skips the capture, or rejects
Outcomes == {"shot", "skipped", "throw"}

\* the name of the step in which a provider call settles with outcome
Settled(outcome) ==
  CASE outcome = "shot" -> "captureShot"
    [] outcome = "skipped" -> "captureSkipped"
    [] outcome = "throw" -> "captureThrow"

\* screenshotter.capture settles: quota bookkeeping, and the recurring
\* timer is re-armed when the call came from its callback
CaptureDone(i, outcome) ==
  /\ i \in 1..Len(reqs)
  /\ LET s1 == [SchedState EXCEPT
                  !.reqs = RemoveAt(reqs, i),
                  !.log = IF outcome = "shot" THEN Logged(shotLog, stime)
                          ELSE shotLog,
                  !.stamps = IF outcome = "throw" THEN hourlyTimestamps
                             ELSE Append(hourlyTimestamps, stime)]
         s2 == IF FromTimer(reqs[i].reason)
                 THEN ScheduleNextTimeShot(s1, opts.timeBasedIntervalMs)
                 ELSE s1
     IN  Commit(s2)
  /\ lastCaptureAt' = IF outcome = "throw" THEN lastCaptureAt ELSE stime
  /\ schOp' = Settled(outcome)
  /\ UNCHANGED <<stime, opts, detTimer, detLast, steps>>
  /\ OutsideSch

\* the due times of the armed timers
Dues ==
  (IF timeBasedTimer.state = "pending" THEN {timeBasedTimer.due} ELSE {})
    \cup (IF windowChangeTimer.state = "pending"
            THEN {windowChangeTimer.due} ELSE {})

\* where the clock gets when d ms are to pass: no further than the next
\* armed timer
Target(d) ==
  LET t == stime + d
      earlier == { x \in Dues : x < t }
  IN  IF earlier = {} THEN t
      ELSE CHOOSE x \in earlier : \A y \in earlier : x <= y

\* time passes; a timer that is due fires first
Advance(d) ==
  /\ Stimulus
  /\ stime \notin Dues
  /\ stime' = Target(d)
  /\ Commit([SchedState EXCEPT !.log = Recent(shotLog, stime')])
  /\ schOp' = "advance"
  /\ UNCHANGED <<opts, detTimer, detLast, lastCaptureAt>>
  /\ OutsideSch

NextScheduler ==
  \/ \E reading \in SchedIdleReadings : SchedulerStart(reading)
  \/ SchedulerStop
  \/ HandleWindowChange
  \/ DebounceFire
  \/ TimeShotFire
  \/ \E reading \in SchedIdleReadings : IdleCheck(reading)
  \/ \E reason \in ExternalReasons : ExternalRequest(reason)
  \/ \E i \in 1..MaxReqs, outcome \in Outcomes : CaptureDone(i, outcome)
  \/ \E d \in TimeSteps : Advance(d)

SpecScheduler == InitScheduler /\ [][NextScheduler]_vars

\* the scheduler driven by start() and stop() alone: no window-change
\* notification and no requestCapture from outside, so that every capture
\* request comes from start(), from the recurring timer or from the idle
\* detector
NextRestart ==
  \/ \E reading \in SchedIdleReadings : SchedulerStart(reading)
  \/ SchedulerStop
  \/ TimeShotFire
  \/ \E reading \in SchedIdleReadings : IdleCheck(reading)
  \/ \E i \in 1..MaxReqs, outcome \in Outcomes : CaptureDone(i, outcome)
  \/ \E d \in TimeSteps : Advance(d)

SpecRestart == InitScheduler /\ [][NextRestart]_vars

(***************************************************************************)
(* Specification of the Screenshotter: capture() called at any time with   *)
(* any reason, power events in between, and every await of capture() a     *)
(* step of its own.                                                        *)
(***************************************************************************)
InitShot ==
  /\ BufStart
  /\ batchSize = DefaultBatchSize
  /\ maxSize = DefaultMaxSize
  /\ TrkDefaults
  /\ SchDefaults
  /\ ShStart
  /\ platform \in Platforms
  /\ RsDefaults

\* the variables of the other components
OutsideSh == UNCHANGED <<bufVars, trkVars, schVars, rsVars, sumVars>>

\* one more stimulus is delivered
ShotStimulus ==
  /\ shSteps < MaxShotSteps
  /\ shSteps' = shSteps + 1

\* the call caps[i] returns false or rejects before anything is written
Abandon(i, op, result) ==
  /\ caps' = RemoveAt(caps, i)
  /\ shOp' = ShotOp(op, result)
  /\ shEmit' = << >>
  /\ UNCHANGED lastAt

\* lines 474-499: the file is written, lastAt is set and onShot is called
Finish(i, op, image) ==
  /\ caps' = RemoveAt(caps, i)
  /\ lastAt' = caps[i].now
  /\ shEmit' = <<ShotEvent(caps[i], image)>>
  /\ shOp' = ShotOp(op, "true")

\* powerMonitor 'suspend' (and 'lock-screen' on macOS)
PowerSuspend ==
  /\ ShotStimulus
  /\ isSystemSleeping' = TRUE
  /\ shOp' = ShotOp("suspend", "none")
  /\ shEmit' = << >>
  /\ UNCHANGED <<shClock, platform, lastAt, lastWakeTime, hasPermission,
                 lastPermissionCheck, caps>>
  /\ OutsideSh

\* powerMonitor 'resume' (and 'unlock-screen' on macOS)
PowerResume ==
  /\ ShotStimulus
  /\ isSystemSleeping' = FALSE
  /\ lastWakeTime' = shClock
  /\ shOp' = ShotOp("wake", "none")
  /\ shEmit' = << >>
  /\ UNCHANGED <<shClock, platform, lastAt, hasPermission,
                 lastPermissionCheck, caps>>
  /\ OutsideSh

\* time passes
ShotAdvance(d) ==
  /\ ShotStimulus
  /\ shClock' = shClock + d
  /\ shOp' = ShotOp("advance", "none")
  /\ shEmit' = << >>
  /\ UNCHANGED <<platform, lastAt, isSystemSleeping, lastWakeTime,
                 hasPermission, lastPermissionCheck, caps>>
  /\ OutsideSh

\* capture(reason) up to its first await: the sleep check, the rate limit
\* and, on macOS, a cached answer of checkPermission()
CaptureCall(reason) ==
  /\ ShotStimulus
  /\ Len(caps) < MaxCaps
  /\ shEmit' = << >>
  /\ IF IsSystemAsleep \/ RateLimited(reason)
       THEN /\ shOp' = ShotOp("capture", "false")
            /\ UNCHANGED caps
       ELSE IF platform = "darwin" /\ ~PermissionCached
         THEN /\ caps' = Append(caps, CaptureCallOf(reason, "permission"))
              /\ shOp' = ShotOp("capture", "pending")
         ELSE IF platform = "darwin" /\ hasPermission = "false"
           THEN /\ shOp' = ShotOp("capture", "false")
                /\ UNCHANGED caps
           ELSE /\ caps' = Append(caps, CaptureCallOf(reason, "primary"))
                /\ shOp' = ShotOp("capture", "pending")
  /\ UNCHANGED <<shClock, platform, lastAt, isSystemSleeping, lastWakeTime,
                 hasPermission, lastPermissionCheck>>
  /\ OutsideSh

\* the test capture of checkPermission() settles
PermissionReturn(i, outcome) ==
  /\ i \in 1..Len(caps)
  /\ caps[i].pc = "permission"
  /\ LET granted == \/ outcome = "granted"
                    \/ outcome = "error" /\ hasPermission # "false"
     IN  /\ IF granted
              THEN /\ caps' = [caps EXCEPT ![i].pc = "primary"]
                   /\ shOp' = ShotOp("permission", "pending")
                   /\ shEmit' = << >>
                   /\ UNCHANGED lastAt
              ELSE Abandon(i, "permission", "false")
         /\ IF outcome = "error"
              THEN UNCHANGED <<hasPermission, lastPermissionCheck>>
              ELSE /\ hasPermission' = IF granted THEN "true" ELSE "false"
                   /\ lastPermissionCheck' = caps[i].now
  /\ UNCHANGED <<shClock, platform, isSystemSleeping, lastWakeTime, shSteps>>
  /\ OutsideSh

\* screenshot() of screenshot-desktop settles: lines 350-392 and, when it
\* gave a picture, lines 474-499
PrimaryReturn(i, outcome) ==
  /\ i \in 1..Len(caps)
  /\ caps[i].pc = "primary"
  /\ CASE outcome = "good" -> Finish(i, "primary", "good")
       [] outcome = "unwritable" -> Abandon(i, "primary", "throw")
       [] outcome = "black" -> Abandon(i, "primary", "false")
       [] OTHER ->
            IF platform = "darwin"
              THEN Abandon(i, "primary", "false")
              ELSE /\ caps' = [caps EXCEPT ![i].pc = "fallback"]
                   /\ shOp' = ShotOp("primary", "pending")
                   /\ shEmit' = << >>
                   /\ UNCHANGED lastAt
  /\ IF platform = "darwin" /\ outcome = "denied"
       THEN /\ hasPermission' = "false"
            /\ lastPermissionCheck' = shClock
       ELSE UNCHANGED <<hasPermission, lastPermissionCheck>>
  /\ UNCHANGED <<shClock, platform, isSystemSleeping, lastWakeTime, shSteps>>
  /\ OutsideSh

\* the renderer fallback (or its 15 s timeout) settles: lines 415-499
FallbackReturn(i, outcome) ==
  /\ i \in 1..Len(caps)
  /\ caps[i].pc = "fallback"
  /\ CASE outcome = "good" -> Finish(i, "fallback", "good")
       [] outcome = "empty" -> Finish(i, "fallback", "empty")
       [] outcome = "unwritable" -> Abandon(i, "fallback", "throw")
       [] OTHER -> Abandon(i, "fallback", "false")
  /\ UNCHANGED <<shClock, platform, isSystemSleeping, lastWakeTime,
                 hasPermission, lastPermissionCheck, shSteps>>
  /\ OutsideSh

NextShot ==
  \/ PowerSuspend
  \/ PowerResume
  \/ \E d \in ShotTimeSteps : ShotAdvance(d)
  \/ \E reason \in CaptureReasons : CaptureCall(reason)
  \/ \E i \in 1..MaxCaps, outcome \in PermissionOutcomes :
       PermissionReturn(i, outcome)
  \/ \E i \in 1..MaxCaps, outcome \in PrimaryOutcomes :
       PrimaryReturn(i, outcome)
  \/ \E i \in 1..MaxCaps, outcome \in FallbackOutcomes :
       FallbackReturn(i, outcome)

SpecShot == InitShot /\ [][NextShot]_vars

(***************************************************************************)
(* Specification of resolveScreenIndex: any target mode, any list of       *)
(* displays, the focused window reported at any time.                      *)
(***************************************************************************)
InitResolve ==
  /\ BufStart
  /\ batchSize = DefaultBatchSize
  /\ maxSize = DefaultMaxSize
  /\ TrkDefaults
  /\ SchDefaults
  /\ ShDefaults
  /\ RsStart
  /\ screenshotTarget \in ScreenshotTargetModes
  /\ \/ listing = "ok" /\ displays \in DisplayLists
     \/ listing \in {"missing", "throws"} /\ displays = << >>
  /\ primaryBounds \in {Absent, <<LeftMonitor>>}

\* the variables of the other components
OutsideRs == UNCHANGED <<bufVars, trkVars, schVars, shVars, sumVars>>

\* updateActiveWindow(info)
UpdateActiveWindow(bounds) ==
  /\ latestWindowInfo' = bounds
  /\ rsOp' = "update"
  /\ UNCHANGED <<screenshotTarget, listing, displays, primaryBounds,
                 screenIndex>>
  /\ OutsideRs

\* requestCapture resolves the display of the capture it is about to ask for
Resolve ==
  /\ screenIndex' = ResolveScreenIndex
  /\ rsOp' = "resolve"
  /\ UNCHANGED <<screenshotTarget, latestWindowInfo, listing, displays,
                 primaryBounds>>
  /\ OutsideRs

NextResolve ==
  \/ \E bounds \in {Absent} \cup {<<r>> : r \in WindowBounds} :
       UpdateActiveWindow(bounds)
  \/ Resolve

SpecResolve == InitResolve /\ [][NextResolve]_vars

(***************************************************************************)
(* Properties of the EventBuffer and of the flush loop.                    *)
(***************************************************************************)
\* the events held by the uploads in flight
InflightEvents == UNION { SeqToSet(inflight[i].evs) : i \in 1..Len(inflight) }

\* the events created so far
Created == 1..(nextId - 1)

\* C1: whatever adds, drains, flushes, failed uploads and requeues ran,
\* size() is at most maxSize.
C1_SizeBounded == BufferSize(events) <= maxSize

\* a failed upload was requeued into a buffer that overflowed: the buffer
\* is at maxSize and the requeue evicted events
C1_Witness ==
  /\ lastOp = "uploadFail"
  /\ evicted # {}
  /\ BufferSize(events) = maxSize

\* C4: after a failed upload of a batch, when no add ran on the buffer
\* between the drain of that batch and the failure, the buffer holds
\* exactly the events of the batch (size() = n, not 0 and not 2n).
C4_FailedBatchRequeued ==
  (lastOp = "uploadFail" /\ ~reqTouched)
    => (events = reqBatch /\ BufferSize(events) = Len(reqBatch))

\* a batch of at least two events failed with the buffer left alone
C4_Witness ==
  /\ lastOp = "uploadFail"
  /\ ~reqTouched
  /\ Len(reqBatch) >= 2
  /\ BufferSize(events) = Len(reqBatch)

\* C5: as long as the buffer never reached maxSize, every event that was
\* added is still on its way to the collector or has arrived: it is in the
\* buffer, in a batch whose upload is pending, or in a batch whose upload
\* succeeded -- also across stop/start of tracking.
C5_NoEventLost ==
  ~everFull => Created \subseteq (SeqToSet(events) \cup InflightEvents
                                    \cup delivered)

\* C6: an add on a buffer at maxSize evicts exactly the oldest event, keeps
\* the order of the others and puts the new event last; after maxSize + 1
\* adds into an empty buffer events 2 .. maxSize + 1 are left, in order.
C6_OldestEvicted ==
  /\ [][(lastOp' = "add" /\ nextId' = nextId + 1
           /\ BufferSize(events) >= maxSize)
         => /\ events' = Append(Tail(events), nextId)
            /\ evicted' = {Head(events)}]_vars
  /\ []((nextId = maxSize + 2 /\ BufferSize(events) = maxSize)
          => events = [i \in 1..maxSize |-> i + 1])

\* maxSize + 1 adds went into an empty buffer of capacity at least two
C6_Witness ==
  /\ lastOp = "add"
  /\ maxSize >= 2
  /\ nextId = maxSize + 2
  /\ BufferSize(events) = maxSize
  /\ evicted = {1}

\* C7: add returns true exactly when the size after the add is at least
\* batchSize; with batchSize 20 and an empty buffer the first 19 adds
\* return false and the 20th returns true.
C7_AddSignalsBatch ==
  /\ lastOp = "add" => (addResult <=> BufferSize(events) >= batchSize)
  /\ (lastOp = "add" /\ batchSize = DefaultBatchSize
        /\ BufferSize(events) = nextId - 1)
       => (addResult <=> nextId - 1 >= DefaultBatchSize)

\* the 20th add into an empty buffer with batchSize 20 returned true
C7_Witness ==
  /\ lastOp = "add"
  /\ batchSize = DefaultBatchSize
  /\ nextId = DefaultBatchSize + 1
  /\ BufferSize(events) = DefaultBatchSize
  /\ addResult

\* C8: drain returns the buffered events in insertion order and leaves the
\* buffer empty; a later add does not change the batch drain returned.
C8_DrainReturnsAll ==
  [][/\ (lastOp' = "drain" /\ nextId' = nextId)
          => (drained' = events /\ BufferSize(events') = 0)
     /\ lastOp' = "add" => drained' = drained]_vars

\* an event was added after a drain that returned two or more events
C8_Witness ==
  /\ lastOp = "add"
  /\ Len(drained) >= 2
  /\ BufferSize(events) >= 1
  /\ SeqToSet(drained) \cap SeqToSet(events) = {}

\* C18: stopTracking cancels the periodic flush timer together with the poll
\* timer: while tracking is stopped the flush timer is not armed and no
\* periodic flush runs
C18_StopCancelsFlush ==
  /\ [](~isTracking => ~flushTimer)
  /\ [][ ~isTracking => lastOp' # "flush" ]_vars

Count(s, e) == Cardinality({ i \in 1..Len(s) : s[i] = e })

\* the number of times e occurs in the buffer and the uploads in flight
Held(e) ==
  LET RECURSIVE InFlight(_)
      InFlight(i) == IF i = 0 THEN 0
                     ELSE Count(inflight[i].evs, e) + InFlight(i - 1)
  IN  Count(events, e) + InFlight(Len(inflight))

\* C20: events are never duplicated internally: whatever the interleaving of
\* adds, periodic and batch-size-triggered flushes and failed uploads, each
\* event instance occurs at most once in the buffer and the batches in
\* flight taken together
C20_NoDuplicates == \A e \in Created : Held(e) <= 1

\* a failed batch has just been requeued while another upload is in flight
C20_Witness ==
  /\ lastOp = "uploadFail"
  /\ reqBatch # << >>
  /\ Len(inflight) >= 1
  /\ \A e \in SeqToSet(reqBatch) : Held(e) = 1

(***************************************************************************)
(* Properties of the ActivityTracker.                                      *)
(***************************************************************************)
\* C2: no window_activity event is emitted with durationMs below
\* minActivityDuration, and a recordable transition of a shorter duration
\* emits nothing (it does not even start the process lookup).
C2_MinDuration ==
  /\ lastEmit # << >> => lastEmit[1].durationMs >= minActivityDuration
  /\ (trkOp.op = "probe" /\ trkOp.should
        /\ trkOp.duration < minActivityDuration)
       => /\ lastEmit = << >>
          /\ ~\E t \in ticks : t.now = trkOp.tick

\* a window change seen after less than minActivityDuration was suppressed
C2_Witness ==
  /\ trkOp.op = "probe"
  /\ trkOp.should
  /\ trkOp.duration > 0
  /\ trkOp.duration < minActivityDuration
  /\ lastChange # << >>
  /\ lastEmit = << >>

\* C10: the tick on which the idle signal becomes true (window tracked,
\* tracker not idle, at least minActivityDuration since lastTimestamp)
\* emits exactly one event, and while the user stays idle on the same
\* window no later tick emits an event.
C10_OneIdleRecord ==
  /\ (lastEmit # << >> /\ idleFrom # -1 /\ lastEmit[1].isIdle
        /\ Equals(lastEmit[1].seen, idleWin))
       => lastEmit[1].tick <= idleFrom
  /\ (idleFrom # -1 /\ ~\E t \in ticks : t.now = idleFrom) => idleEmits = 1

\* C12: on a tick that is neither the first one nor a resume from idle,
\* when the snapshot differs from the tracked window and
\* now - lastTimestamp >= minActivityDuration, exactly one record is emitted
\* for that tick, and it carries the application of the window that was
\* tracked when the tick compared the snapshot, with durationMs the
\* duration the tick computed
C12_ChangeRecord ==
  /\ (lastEmit # << >> /\ ~Equals(lastEmit[1].seen, lastEmit[1].tracked)) =>
        /\ lastEmit[1].application = AppOf(lastEmit[1].tracked)
        /\ lastEmit[1].tick = trkOp.tick
        /\ lastEmit[1].durationMs = trkOp.duration
  /\ (trkOp.op = "probe" /\ trkOp.duration >= minActivityDuration
        /\ lastChange # << >>) =>
        /\ lastEmit # << >>
        /\ ~\E t \in ticks : t.now = trkOp.tick
  /\ (trkOp.op = "probe" /\ trkOp.duration >= minActivityDuration
        /\ \E t \in ticks : t.now = trkOp.tick /\ t.windowChanged) =>
        /\ lastEmit = << >>
        /\ \E t \in ticks : t.now = trkOp.tick /\ t.pc = "context"
  /\ trkOp.op = "context" =>
        /\ lastEmit # << >>
        /\ ~\E t \in ticks : t.now = trkOp.tick

\* the steps in which a tick continues after the window probe
ProbeSteps == {"first", "resume", "probe"}

\* C23: on a tick that finds the tracker idle while the idle signal is now
\* false, no record is emitted whatever the elapsed time, the tick is over,
\* lastTimestamp and lastActivityAt are the tick time, the idle flag is
\* cleared and lastWindow is replaced by the snapshot only if the snapshot
\* differs from it
C23_ResumeSilent ==
  [][ ( /\ trkOp'.op \in ProbeSteps
        /\ lastWindow # NullWindow
        /\ idleActive
        /\ ~trkOp'.isIdle )
      => /\ lastEmit' = << >>
         /\ ~\E t \in ticks' : t.now = trkOp'.tick
         /\ lastTimestamp' = trkOp'.tick
         /\ lastActivityAt' = trkOp'.tick
         /\ idleActive' = FALSE
         /\ lastWindow' = IF Equals(trkOp'.seen, lastWindow)
                            THEN lastWindow ELSE trkOp'.seen ]_vars

\* a tick has just resumed from idle on another window, a max session
\* chunk or more after the first tick
C23_Witness ==
  /\ trkOp.op = "resume"
  /\ ~trkOp.isIdle
  /\ lastChange = <<trkOp.seen>>
  /\ lastTimestamp = trkOp.tick
  /\ trkOp.tick >= intervalMs + MaxSessionDuration

\* C24: idle time is never counted as activity: as long as no tick has
\* started while another was suspended, no tick that found the system idle
\* lies inside the interval an emitted record with isIdle = false covers,
\* from the lastTimestamp it was measured from up to its emission
C24_NoIdleInActivity ==
  (~overlapped /\ lastEmit # << >> /\ ~lastEmit[1].isIdle) =>
     idleSeenAt <= lastEmit[1].tick - lastEmit[1].durationMs

\* a record with isIdle = false has just been emitted by non-overlapping
\* ticks after an earlier tick had found the system idle
C24_Witness ==
  /\ ~overlapped
  /\ lastEmit # << >>
  /\ ~lastEmit[1].isIdle
  /\ idleSeenAt > 0

\* the step emits exactly one record with isIdle = idle for window w,
\* measured over duration by the tick at time tick
EmitsOne(w, tick, duration, idle) ==
  /\ Len(lastEmit') = 1
  /\ lastEmit'[1].application = AppOf(w)
  /\ lastEmit'[1].title = w.title
  /\ lastEmit'[1].tick = tick
  /\ lastEmit'[1].durationMs = duration
  /\ lastEmit'[1].isIdle = idle

\* C25: while the user is not idle and the focused window does not change,
\* a tick at which now - lastTimestamp has reached the max session chunk
\* emits one record for the tracked window, at once or after the
\* process-context lookup, and sets lastTimestamp to the tick time while
\* keeping lastWindow
C25_ChunkRecord ==
  /\ [][ ( /\ trkOp'.op \in ProbeSteps
          /\ lastWindow # NullWindow
          /\ ~idleActive
          /\ ~trkOp'.isIdle
          /\ Equals(trkOp'.seen, lastWindow)
          /\ trkOp'.tick - lastTimestamp >= MaxSessionDuration )
        => \/ /\ ~\E t \in ticks' : t.now = trkOp'.tick
              /\ EmitsOne(lastWindow, trkOp'.tick,
                          trkOp'.tick - lastTimestamp, FALSE)
              /\ lastTimestamp' = trkOp'.tick
              /\ lastWindow' = lastWindow
           \/ /\ \E t \in ticks' :
                   /\ t.now = trkOp'.tick
                   /\ t.pc = "context"
                   /\ t.prev = lastWindow
                   /\ t.duration = trkOp'.tick - lastTimestamp
              /\ lastEmit' = << >>
              /\ UNCHANGED <<lastTimestamp, lastWindow>> ]_vars
  /\ [][ ( /\ trkOp'.op = "context"
          /\ ~trkOp'.isIdle
          /\ trkOp'.duration >= MaxSessionDuration
          /\ Equals(trkOp'.seen, lastWindow)
          /\ \E t \in ticks : t.now = trkOp'.tick /\ t.prev = lastWindow )
        => /\ ~\E t \in ticks' : t.now = trkOp'.tick
           /\ EmitsOne(lastWindow, trkOp'.tick, trkOp'.duration, FALSE)
           /\ lastTimestamp' = trkOp'.tick
           /\ lastWindow' = lastWindow ]_vars

\* a tick that found the user active on the tracked window a max session
\* chunk after lastTimestamp has just emitted its record
C25_Witness ==
  /\ trkOp.op \in {"probe", "context"}
  /\ lastEmit # << >>
  /\ ~lastEmit[1].isIdle
  /\ Equals(lastEmit[1].seen, lastEmit[1].tracked)
  /\ lastEmit[1].durationMs >= MaxSessionDuration
  /\ lastTimestamp = trkOp.tick
  /\ lastWindow = lastEmit[1].tracked

C27_IdleBeforeChunk ==
  /\ [][ ( /\ trkOp'.op \in ProbeSteps
          /\ lastWindow # NullWindow
          /\ ~idleActive
          /\ trkOp'.isIdle
          /\ Equals(trkOp'.seen, lastWindow)
          /\ trkOp'.tick - lastTimestamp >= MaxSessionDuration )
        => \/ /\ ~\E t \in ticks' : t.now = trkOp'.tick
              /\ EmitsOne(lastWindow, trkOp'.tick,
                          trkOp'.tick - lastTimestamp, TRUE)
              /\ idleActive'
              /\ lastTimestamp' = trkOp'.tick
           \/ /\ \E t \in ticks' :
                   /\ t.now = trkOp'.tick
                   /\ t.pc = "context"
                   /\ t.isIdle
                   /\ ~t.windowChanged
              /\ lastEmit' = << >> ]_vars
  /\ [][ ( /\ trkOp'.op = "context"
          /\ trkOp'.isIdle
          /\ trkOp'.duration >= MaxSessionDuration
          /\ \E t \in ticks : t.now = trkOp'.tick /\ ~t.windowChanged )
        => /\ ~\E t \in ticks' : t.now = trkOp'.tick
           /\ Len(lastEmit') = 1
           /\ lastEmit'[1].isIdle
           /\ lastEmit'[1].tick = trkOp'.tick
           /\ lastEmit'[1].durationMs = trkOp'.duration
           /\ idleActive'
           /\ lastTimestamp' = trkOp'.tick ]_vars

\* a tick that found the system idle on the tracked window a max session
\* chunk after lastTimestamp has just emitted its record
C27_Witness ==
  /\ trkOp.op \in {"probe", "context"}
  /\ lastEmit # << >>
  /\ lastEmit[1].isIdle
  /\ Equals(lastEmit[1].seen, lastEmit[1].tracked)
  /\ lastEmit[1].durationMs >= MaxSessionDuration
  /\ idleActive
  /\ lastTimestamp = trkOp.tick

\* C32: no time is recorded twice: whatever the interleaving of the poll
\* ticks, one still suspended in the window probe or in the context lookup
\* when the next starts included, the sum of durationMs over all emitted
\* records is at most the time elapsed since the first tick
C32_NoTimeTwice ==
  firstTickAt # -1 => recorded <= clock - firstTickAt

\* C33: with the idle probe unavailable on every tick, once the tracker
\* has entered the idle state it never leaves it: the idle flag stays true,
\* lastActivityAt is unchanged, and every later record has isIdle = true
C33_IdleSticks ==
  [][ idleActive =>
        /\ idleActive'
        /\ lastActivityAt' = lastActivityAt
        /\ (lastEmit' # << >> => lastEmit'[1].isIdle) ]_vars

\* C37: when a recordable transition occurs but its record is suppressed,
\* lastTimestamp is still reset to the tick time and a changed window is
\* still adopted, so no later record covers the suppressed interval
C37_SuppressedNotCounted ==
  [][ /\ Suppressed(trkOp') =>
           /\ lastEmit' = << >>
           /\ lastTimestamp' = trkOp'.tick
           /\ ~Equals(trkOp'.seen, lastWindow) => lastWindow' = trkOp'.seen
      /\ lastEmit' # << >> =>
           \A iv \in skipped :
             \/ lastEmit'[1].tick - lastEmit'[1].durationMs >= iv[2]
             \/ lastEmit'[1].tick <= iv[1] ]_vars

\* C38: an empty snapshot is compared like any other window: when the
\* tracked window is not empty the tick counts as a window change (a record
\* for the tracked window is emitted if long enough, the window-change
\* callback fires and the empty window is adopted), and a record for the
\* empty window carries the application "Unknown"
C38_EmptySnapshot ==
  [][ /\ (/\ trkOp'.op = "probe"
          /\ trkOp'.seen = EmptyWindow
          /\ ~Equals(EmptyWindow, lastWindow)) =>
            /\ trkOp'.should
            /\ IF LongEnough(trkOp'.duration) /\ ContextSuspends(lastWindow)
                 THEN \E t \in ticks' : t.now = trkOp'.tick /\ t.pc = "context"
                 ELSE /\ lastWindow' = EmptyWindow
                      /\ lastChange' = <<EmptyWindow>>
                      /\ (lastEmit' # << >>) <=> LongEnough(trkOp'.duration)
      /\ (trkOp'.op = "context" /\ trkOp'.seen = EmptyWindow) =>
            /\ lastWindow' = EmptyWindow
            /\ lastChange' = <<EmptyWindow>>
            /\ lastEmit' # << >>
      /\ (/\ trkOp'.op = "resume"
          /\ trkOp'.seen = EmptyWindow
          /\ ~Equals(EmptyWindow, lastWindow)) =>
            /\ lastWindow' = EmptyWindow
            /\ lastChange' = <<EmptyWindow>>
      /\ (lastEmit' # << >> /\ lastEmit'[1].seen = EmptyWindow) =>
            /\ lastEmit'[1].application = AppOf(lastEmit'[1].tracked)
            /\ lastEmit'[1].durationMs = trkOp'.duration
      /\ (lastEmit' # << >> /\ lastEmit'[1].tracked = EmptyWindow) =>
            lastEmit'[1].application = "Unknown" ]_vars

\* C29: every poll tick terminates even if the window probe never
\* returns: the tick of a hung probe goes on with the empty snapshot, no
\* tick stays suspended for ever, and a later tick runs while the tick of
\* a hung probe is still waiting
C29_TickTerminates ==
  /\ [][ \A t \in ticks :
           (t.pc = "probe" /\ t.hung /\ t \notin ticks') =>
              /\ trkOp'.op \in ProbeSteps
              /\ trkOp'.tick = t.now
              /\ trkOp'.seen = EmptyWindow ]_vars
  /\ (ticks # {}) ~> (ticks = {})

\* a later tick has just gone on after its probe while the tick of a hung
\* probe is still waiting for its timeout
C29_Witness ==
  /\ trkOp.op \in ProbeSteps
  /\ \E t \in ticks : t.pc = "probe" /\ t.hung /\ t.now < trkOp.tick

(***************************************************************************)
(* Properties of the ScreenshotScheduler.                                  *)
(***************************************************************************)
\* C3: whatever the sequence or interleaving of requestCapture calls, a
\* flood of manual requests included, the captures the scheduler lets
\* through to the capture provider in a rolling window of 3,600,000 ms are
\* never more than maxScreenshotsPerHour; counted here are only the calls
\* the provider answered with a screenshot, within one start-stop session
C3_HourlyCap == Len(shotLog) <= opts.maxScreenshotsPerHour

\* C9: a burst of window-change notifications, each less than
\* windowChangeDebounceMs after the previous one, results in exactly one
\* capture request, with reason window_change, issued windowChangeDebounceMs
\* after the last notification: the pending debounce timer is always due
\* windowChangeDebounceMs after the last notification and the clock never
\* passes it, and a step that requests window_change is the expiry of that
\* timer, requests nothing else and leaves no debounce timer behind
C9_DebounceSingle ==
  /\ [](windowChangeTimer.state = "pending" =>
          /\ notifyAt # -1
          /\ windowChangeTimer.due = notifyAt + opts.windowChangeDebounceMs
          /\ stime <= windowChangeTimer.due)
  /\ [][ "window_change" \in SeqToSet(calls') =>
            /\ windowChangeTimer.state = "pending"
            /\ stime' = notifyAt + opts.windowChangeDebounceMs
            /\ calls' = <<"window_change">>
            /\ windowChangeTimer' = NoTimer ]_vars

\* a started, non-idle scheduler has just issued the request that ends a
\* burst of several notifications
C9_Witness ==
  /\ schOp = "debounceFire"
  /\ calls = <<"window_change">>
  /\ burstLen = 2
  /\ detTimer
  /\ ~schIdle

\* C11: the step in which the scheduler's idle flag becomes set leaves
\* neither the recurring timer nor the debounce timer armed, and no state
\* with the idle flag set has either timer armed: a window-change
\* notification while idle arms nothing and a time-based capture that
\* finishes while idle does not re-arm
C11_IdleCancels ==
  /\ [](schIdle => /\ timeBasedTimer.state # "pending"
                   /\ windowChangeTimer.state # "pending")
  /\ [][ (~schIdle /\ schIdle') =>
            /\ timeBasedTimer'.state # "pending"
            /\ windowChangeTimer'.state # "pending" ]_vars

\* a started scheduler with a recurring interval is idle and has just been
\* notified of a window change
C11_Witness ==
  /\ schIdle
  /\ detTimer
  /\ opts.timeBasedIntervalMs > 0
  /\ schOp = "windowChange"

\* C13: only a realized capture consumes rate-limit budget: when a request
\* has passed the checks and the provider throws or skips the capture,
\* lastCaptureAt and hourlyTimestamps are left unchanged
C13_OnlyRealized ==
  [][ schOp' \in {"captureSkipped", "captureThrow"} =>
        UNCHANGED <<lastCaptureAt, hourlyTimestamps>> ]_vars

\* C14: a requestCapture call made while the idle flag is set with a reason
\* other than manual, tracking_start and resume passes nothing to the
\* capture provider and leaves quota state unchanged; with one of those
\* three reasons the idle flag alone never rejects the call: it is let
\* through exactly when the rate-limit checks allow it
C14_IdleGate ==
  /\ [][ (schIdle /\ schOp' = "requestWindowChange") =>
            UNCHANGED <<reqs, lastCaptureAt, hourlyTimestamps, shotLog>> ]_vars
  /\ [][ (schIdle /\ schOp' = "requestManual") =>
            IF CanCapture(stime, lastCaptureAt, hourlyTimestamps, opts).ok
              THEN reqs' = AddPending(reqs, [reason |-> "manual"])
              ELSE reqs' = reqs ]_vars

\* an idle scheduler whose quota would allow a capture has just been
\* asked for a window_change capture from outside
C14_Witness ==
  /\ schIdle
  /\ schOp = "requestWindowChange"
  /\ CanCapture(stime, lastCaptureAt, hourlyTimestamps, opts).ok

\* C15: a requestCapture call made when now - lastCaptureAt < minIntervalMs
\* passes nothing to the capture provider, whatever its reason other than
\* window_change, the always-allowed manual, tracking_start and resume
\* included
C15_MinSpacing ==
  [][ stime - lastCaptureAt < opts.minIntervalMs =>
        \A r \in {reqs'[i].reason : i \in 1..Len(reqs')} \ {"window_change"} :
          Cardinality({i \in 1..Len(reqs') : reqs'[i].reason = r})
            <= Cardinality({i \in 1..Len(reqs) : reqs[i].reason = r}) ]_vars

\* a manual request has just been made less than minIntervalMs after a
\* recorded capture, and nothing awaits the provider
C15_Witness ==
  /\ schOp = "requestManual"
  /\ lastCaptureAt # 0
  /\ stime - lastCaptureAt < opts.minIntervalMs
  /\ reqs = << >>

\* C16: for reason window_change the minimum-spacing check of the scheduler
\* uses the shorter window-change interval instead of minIntervalMs: a
\* window_change request made at least that interval but less than
\* minIntervalMs after the last recorded capture, by a scheduler that is not
\* idle and has hourly budget left, is let through
C16_WindowChangeSpacing ==
  [][ ( /\ schOp' \in {"debounceFire", "requestWindowChange"}
        /\ ~schIdle
        /\ lastCaptureAt # 0
        /\ stime - lastCaptureAt >= WindowChangeIntervalMs
        /\ stime - lastCaptureAt < opts.minIntervalMs
        /\ Len(TrimHourly(hourlyTimestamps, stime))
             < opts.maxScreenshotsPerHour )
        => reqs' = AddPending(reqs, [reason |-> "window_change"]) ]_vars

\* C17: stop() leaves the idle-check timer, the recurring timer and the
\* debounce timer cancelled, and until start() is called again the
\* scheduler neither has its recurring timer armed nor issues a time-based
\* capture request, however stop() interleaves with timer callbacks and
\* with capture requests in flight
C17_StopCancels ==
  /\ [][ schOp' = "stop" =>
            /\ ~detTimer'
            /\ timeBasedTimer'.state # "pending"
            /\ windowChangeTimer'.state # "pending" ]_vars
  /\ [](~detTimer => timeBasedTimer.state # "pending")
  /\ [][ ~detTimer' => "time_interval" \notin SeqToSet(calls') ]_vars

\* C22: the rate limiter does not track captures in flight: a request made
\* by a timer callback while another request awaits the provider, before
\* lastCaptureAt is updated, passes the rate-limit check like any other and
\* is handed to the provider too, so that two captures are started less
\* than minIntervalMs apart
C22_NoInflightTracking ==
  [][ ( /\ schOp' \in {"debounceFire", "timeShotFire"}
        /\ reqs # << >>
        /\ ~schIdle
        /\ CanCapture(stime, lastCaptureAt, hourlyTimestamps, opts).ok )
      => Len(reqs') = Len(reqs) + 1 ]_vars

\* less than minIntervalMs after the scheduler was constructed and before
\* any capture was recorded, the debounce timer has just handed a
\* window_change request to the provider while the tracking_start request
\* is still in flight
C22_Witness ==
  /\ schOp = "debounceFire"
  /\ calls = <<"window_change">>
  /\ Len(reqs) = 2
  /\ \E i \in 1..Len(reqs) : reqs[i].reason = "tracking_start"
  /\ \E i \in 1..Len(reqs) : reqs[i].reason = "window_change"
  /\ lastCaptureAt = 0
  /\ stime - OneHourMs < opts.minIntervalMs

\* the number of requestCapture calls with this reason in the last step
Issued(reason) == Cardinality({i \in 1..Len(calls') : calls'[i] = reason})

\* C34: after start() the scheduler's idle flag equals the state its idle
\* detector reported last; while that state is idle, the scheduler is idle
\* and its recurring timer is not armed
C34_IdleFlagAgrees ==
  /\ detLast # "null" => (schIdle <=> detLast = "idle")
  /\ detLast = "idle" => timeBasedTimer = NoTimer

\* C28: when the idle detector reports active after idle, the scheduler is
\* no longer idle, its recurring timer is armed for a full
\* timeBasedIntervalMs from now (it stays unarmed when that interval is not
\* positive) and exactly one requestCapture("resume") is made if
\* resumeCaptureOnActive is set, none if it is not
C28_ResumeRearms ==
  [][ (detLast = "idle" /\ detLast' = "active") =>
        /\ ~schIdle'
        /\ timeBasedTimer' = IF opts.timeBasedIntervalMs > 0
                               THEN Armed(stime, opts.timeBasedIntervalMs)
                               ELSE NoTimer
        /\ Issued("resume") = IF opts.resumeCaptureOnActive THEN 1 ELSE 0
        /\ schOp' = "becameActive" => Len(calls') = Issued("resume") ]_vars

\* the idle check has just reported active after idle, later than the
\* scheduler was started: one resume request was made and the recurring
\* timer runs for the full interval
C28_Witness ==
  /\ schOp = "becameActive"
  /\ stime > OneHourMs
  /\ calls = <<"resume">>
  /\ opts.timeBasedIntervalMs > 0
  /\ timeBasedTimer = Armed(stime, opts.timeBasedIntervalMs)

(***************************************************************************)
(* Properties of the Screenshotter.                                        *)
(***************************************************************************)
\* C21: a screenshot event is passed to onShot only by a capture call that
\* passed the sleep check and the rate limit and got a non-empty, non-black
\* image; a capture call that returns false or rejects passes no event to
\* onShot and leaves lastAt unchanged
C21_EmitOnlyRealImage ==
  /\ [](\A i \in 1..Len(shEmit) : shEmit[i].image = "good")
  /\ [][ shEmit' # << >> =>
           \E i \in 1..Len(caps) :
             /\ caps[i].pc \in {"primary", "fallback"}
             /\ shEmit' = <<ShotEvent(caps[i], "good")>> ]_vars
  /\ [][ shOp'.result \in {"false", "throw"} =>
           shEmit' = << >> /\ lastAt' = lastAt ]_vars

\* the requestCapture("tracking_start") calls awaiting the provider in q
StartsPending(q) ==
  Cardinality({i \in 1..Len(q) : q[i].reason = "tracking_start"})

\* C36: stop() clears lastCaptureAt and hourlyTimestamps, and the capture
\* request of a start() that follows a stop() is accepted, whatever
\* captures were requested before the stop
C36_FreshSession ==
  [][ /\ schOp' = "stop" => (lastCaptureAt' = 0 /\ hourlyTimestamps' = << >>)
      /\ (schOp' = "start" /\ ~detTimer)
           => StartsPending(reqs') = StartsPending(reqs) + 1 ]_vars

\* C35: requestCapture("resume") is called only in a step that takes the
\* scheduler from idle to active, and start() on a system that is not idle
\* calls requestCapture once, with reason tracking_start
C35_ResumeOnlyAfterIdle ==
  [][ /\ Issued("resume") > 0 => (schIdle /\ ~schIdle')
      /\ (schOp' = "start" /\ detLast' = "active")
           => calls' = <<"tracking_start">> ]_vars

(***************************************************************************)
(* Properties of resolveScreenIndex.                                       *)
(***************************************************************************)
\* the listed displays, counted from 0, whose normalized rectangle holds
\* the centre of the target rectangle, the edges included
Holding(target) ==
  {i \in 0..(Len(displays) - 1) :
     LET rect == NormalizeDisplay(displays[i + 1])
     IN  /\ rect # Absent
         /\ 2 * rect[1].x <= 2 * target.x + target.width
         /\ 2 * target.x + target.width <= 2 * (rect[1].x + rect[1].width)
         /\ 2 * rect[1].y <= 2 * target.y + target.height
         /\ 2 * target.y + target.height
              <= 2 * (rect[1].y + rect[1].height)}

\* C30: in primary and active modes, if at least one listed display's
\* normalized rectangle contains the centre of the target rectangle (edges
\* inclusive), resolveScreenIndex returns the lowest index of such a
\* display, whatever the shape of the displays
C30_LowestHolding ==
  (/\ rsOp = "resolve"
   /\ screenshotTarget \in {"primary", "active"}
   /\ listing = "ok"
   /\ TargetBounds # Absent
   /\ Holding(TargetBounds[1]) # {})
    => /\ screenIndex \in Holding(TargetBounds[1])
       /\ \A i \in Holding(TargetBounds[1]) : screenIndex <= i

\* the index of a window centred on the edge two displays of different
\* shapes share has just been resolved in active mode
C30_Witness ==
  /\ rsOp = "resolve"
  /\ screenshotTarget = "active"
  /\ latestWindowInfo = <<Rect(2, 1, 4, 2)>>
  /\ Len(displays) = 2
  /\ displays[1] = DisplayOf("ltrb", LeftMonitor)
  /\ displays[2] = DisplayOf("bounds", RightMonitor)
  /\ Holding(TargetBounds[1]) = {0, 1}
  /\ screenIndex = 0

\* the lowest listed display holding the centre of target, Undefined when
\* none does
LowestHolding(target) ==
  IF Holding(target) = {} THEN Undefined
  ELSE CHOOSE i \in Holding(target) : \A j \in Holding(target) : i <= j

\* C31 as stated: when no listed display contains the centre of the target
\* rectangle, resolveScreenIndex returns 0 in primary mode and undefined in
\* active mode; in all mode it returns undefined; in active mode without
\* window bounds the target is the primary display's bounds
C31_Fallback ==
  (rsOp = "resolve" /\ listing = "ok") =>
    /\ (/\ screenshotTarget = "primary"
        /\ primaryBounds # Absent
        /\ Holding(primaryBounds[1]) = {}) => screenIndex = 0
    /\ (/\ screenshotTarget = "active"
        /\ latestWindowInfo # Absent
        /\ Holding(latestWindowInfo[1]) = {}) => screenIndex = Undefined
    /\ screenshotTarget = "all" => screenIndex = Undefined
    /\ (/\ screenshotTarget = "active"
        /\ latestWindowInfo = Absent
        /\ primaryBounds # Absent)
         => screenIndex = LowestHolding(primaryBounds[1])

\* C31, amended: the same when at least one display is listed; with an
\* empty list resolveScreenIndex returns undefined in primary mode too
C31_FallbackListed ==
  (rsOp = "resolve" /\ listing = "ok") =>
    /\ (/\ screenshotTarget = "primary"
        /\ primaryBounds # Absent
        /\ Len(displays) > 0
        /\ Holding(primaryBounds[1]) = {}) => screenIndex = 0
    /\ (/\ screenshotTarget = "primary"
        /\ Len(displays) = 0) => screenIndex = Undefined
    /\ (/\ screenshotTarget = "active"
        /\ latestWindowInfo # Absent
        /\ Holding(latestWindowInfo[1]) = {}) => screenIndex = Undefined
    /\ screenshotTarget = "all" => screenIndex = Undefined
    /\ (/\ screenshotTarget = "active"
        /\ latestWindowInfo = Absent
        /\ primaryBounds # Absent)
         => screenIndex = LowestHolding(primaryBounds[1])

\* index 0 has just been resolved in primary mode for a list whose only
\* display does not hold the centre of the primary display's bounds
C31_Witness ==
  /\ rsOp = "resolve"
  /\ screenshotTarget = "primary"
  /\ listing = "ok"
  /\ primaryBounds = <<LeftMonitor>>
  /\ displays = <<DisplayOf("ltwh", RightMonitor)>>
  /\ Holding(primaryBounds[1]) = {}
  /\ screenIndex = 0

(***************************************************************************)
(* C39: a failed flush starts no flush of its own.  The step in which an   *)
(* upload fails takes that upload out of flight and puts no other in:      *)
(* the requeued events stay in the buffer, also when their number has      *)
(* reached batchSize.  An upload is started only by a step of the          *)
(* periodic flush timer or by a step that adds a newly produced event.     *)
(***************************************************************************)
C39_FailedFlushStartsNone ==
  [][(lastOp' = "uploadFail" =>
        (/\ Len(inflight') = Len(inflight) - 1
         /\ Len(events') = Len(Requeue(events, reqBatch', maxSize))))
     /\ ((\E i \in 1..Len(inflight') :
            \A j \in 1..Len(inflight) : inflight'[i].evs # inflight[j].evs)
          => lastOp' \in {"flush", "onEvent"})]_vars

\* an upload has just failed and the requeued batch fills the buffer to
\* batchSize or more, with no upload left in flight
C39_Witness ==
  /\ lastOp = "uploadFail"
  /\ reqBatch # << >>
  /\ BufferSize(events) >= batchSize
  /\ inflight = << >>

(***************************************************************************)
(* C40: in every reachable state of the scheduler the event loop holds at  *)
(* most one recurring timer and at most one debounce timer, and the timer  *)
(* it holds is the one the handle field refers to, whatever the order of   *)
(* start(), idle notifications, window changes, timer callbacks and        *)
(* settling captures.                                                      *)
(***************************************************************************)
C40_OneTimerEach ==
  /\ liveTimers.time = (IF timeBasedTimer.state = "pending" THEN 1 ELSE 0)
  /\ liveTimers.debounce =
       (IF windowChangeTimer.state = "pending" THEN 1 ELSE 0)

\* both timers are set while the capture requested by an earlier callback
\* of the recurring timer is still in flight
C40_Witness ==
  /\ liveTimers = [time |-> 1, debounce |-> 1]
  /\ \E i \in 1..Len(reqs) : reqs[i].reason = "time_interval"

====
